---- MODULE Spec2Model ----
(***************************************************************************)
(* ArthurDex backend (src/server.js): an Express gateway in front of the   *)
(* Hedera token service, with user accounts, a transaction log and a price *)
(* cache, over MongoDB or an in-process memory store.                      *)
(*                                                                         *)
(* Node runs one handler at a time and switches only at an await, so each  *)
(* action below is the code between two awaits of one handler (or of one   *)
(* run of the price refresher).  An operation on the durable store that a  *)
(* handler awaits is run by the store in a step of its own (the insert     *)
(* lands, the query is evaluated on the collection as it is), before the   *)
(* step in which its answer resumes the handler; other handlers run in     *)
(* between.                                                                *)
(***************************************************************************)
EXTENDS Integers, Sequences, FiniteSets, TLC

(***************************************************************************)
(* Bounds of the model.                                                    *)
(***************************************************************************)
\* Transaction documents created in one run.
MaxTxs == 2
\* Clock ticks (Date.now() has millisecond resolution: two documents can be
\* created between two ticks).
MaxTime == 1

\* Transaction documents created in one run of a specification that has one
\* request in flight at a time (the gate and the store specification).
MaxSingleTxs == 1

\* Requests in flight at the same time.
Slots == {1, 2}
\* Refresh runs started (the one of startup included) and oracle fetches
\* made, at most.
MaxRuns == 3
MaxFetches == 4

(***************************************************************************)
(* Values of request fields.                                               *)
(***************************************************************************)
\* A JSON field that is absent (JS undefined).
Undef == "undefined"
\* A JSON string field's falsy values: absent or the empty string.
Falsy(x) == x \in {Undef, ""}

\* HEDERA_OPERATOR_ID, the payer of every transaction the client freezes.
OperatorId == "0.0.9"
\* Strings AccountId.fromString accepts ("shard.realm.num").
Accounts == {"0.0.1", "0.0.2"}
\* A string AccountId.fromString throws on.
MalformedId == "acct"
TokenIds == {"0.0.100"}
\* A key string PrivateKey.fromString accepts, and one it throws on.
GoodKey == "302e-key"
MalformedKey == "not-a-key"

\* A numeric field, as JSON gives it: null, absent, an integer number, a
\* number with a fraction, a string of digits, the empty string, a string
\* that is a numeric literal without being digits only (" 7 ", "0x10"), a
\* string that is no numeric literal ("abc", "1.5").
AmtNull == [t |-> "null", v |-> 0]
AmtUndef == [t |-> "undefined", v |-> 0]
AmtNum(n) == [t |-> "num", v |-> n]
AmtStr(n) == [t |-> "str", v |-> n]
AmtEmpty == [t |-> "empty", v |-> 0]
AmtLit(n) == [t |-> "lit", v |-> n]
AmtFrac == [t |-> "frac", v |-> 0]
AmtText == [t |-> "text", v |-> 0]

\* x == null
Nullish(a) == a.t \in {"null", "undefined"}

\* BigInt(amount): integers and strings that are integer literals convert
\* (the empty string to 0n); null and undefined throw a TypeError, a
\* fraction a RangeError and any other string a SyntaxError.
BigIntThrows(a) == a.t \in {"frac", "text", "null", "undefined"}
BigInt(a) == a.v
\* Mongoose casts a Number path: the empty string becomes null, any other
\* string Number(string).
CastNumber(a) ==
  IF a.t \in {"str", "lit"} THEN AmtNum(a.v)
  ELSE IF a.t = "empty" THEN AmtNull
  ELSE a

\* Number(req.query.limit || 50): q is <<>> when the query has no limit and
\* <<n>> when it has one ("0" is a non-empty string, so it is kept).
DefaultLimit == 50
LimitOf(q) == IF q = <<>> THEN DefaultLimit ELSE q[1]

(***************************************************************************)
(* Bearer credentials.                                                     *)
(***************************************************************************)
\* jwt.sign({username}, JWT_SECRET, {expiresIn: "3h"})
genToken(username) == [username |-> username, sig |-> "JWT_SECRET", expired |-> FALSE]
\* jwt.verify throws on a wrong signature and on an expired token.
JwtVerifies(token) == token.sig = "JWT_SECRET" /\ ~token.expired

\* The Authorization header split at " ": <<>> is no header.  The last one
\* carries a token signed with JWT_SECRET whose payload has no username.
Headers ==
  { <<>>, <<"Bearer">>,
    <<"Bearer", [username |-> "alice", sig |-> "forged", expired |-> FALSE]>>,
    <<"Bearer", [username |-> "alice", sig |-> "JWT_SECRET", expired |-> TRUE]>>,
    <<"Bearer", genToken("alice")>>,
    <<"Bearer", genToken(Undef)>> }

\* authMiddleware that takes the token without verifying it.
AuthError_Unverified(h) ==
  IF h = <<>> THEN "Missing Authorization header"
  ELSE IF Len(h) < 2 THEN "Malformed Authorization header"
  ELSE ""

\* authMiddleware: the 401 error, or "" when next() is called.
AuthError(h) ==
  IF h = <<>> THEN "Missing Authorization header"
  ELSE IF Len(h) < 2 THEN "Malformed Authorization header"
  ELSE IF ~JwtVerifies(h[2]) THEN "Invalid token"
  ELSE ""

(***************************************************************************)
(* Responses.                                                              *)
(***************************************************************************)
Err(code, error) == [code |-> code, error |-> error, details |-> "", body |-> <<>>]
ErrD(code, error, details) == [code |-> code, error |-> error, details |-> details, body |-> <<>>]
Ok(body) == [code |-> 200, error |-> "", details |-> "", body |-> body]

Unauthorized(h) == Err(401, AuthError(h))

VARIABLES
  mongo,       \* MONGO_URI is set
  hedera,      \* hederaClient is not null
  memUsers,    \* memoryStore.users: username -> user, NoUser when absent
  dbUsers,     \* the User collection
  memTxs,      \* memoryStore.txs, index 1 is the front
  dbTxs,       \* the Transaction collection
  now,         \* Date.now()
  created,     \* transaction documents built so far
  pc,          \* per slot: where its handler is suspended
  job,         \* per slot: the locals of the suspended handler
  last,        \* the request answered by the step just taken, NoLast if none
  registered,  \* usernames whose registration has answered success
  seen,        \* (outcome, kind of response) of the transfers answered so far
  phase,       \* startServer: "connect", "refresh", "listening", "exited"
  alive,       \* the process has not exited
  timer,       \* setInterval(priceUpdaterOnce, ...) has been called
  ticks,       \* times the interval timer has fired
  started,     \* calls of priceUpdaterOnce so far
  fetches,     \* answers the oracle has given so far
  memPrices,   \* memoryStore.prices: <<>> while undefined, else <<data>>
  dbPrices,    \* the Price collection
  rpc,         \* per run of priceUpdaterOnce: where it is suspended
  rjob,        \* per run: its locals, and how it ended
  watch,       \* the last successful price read, what refreshes did since
               \* (failed at the oracle, wrote), and whether a run was ever
               \* cut short by the store
  executes,    \* calls of execute made for the transfer request in hand
  accessed     \* the stores read or written so far: "memory", "durable"

priceVars == <<phase, alive, timer, ticks, started, fetches, memPrices, dbPrices,
               rpc, rjob, watch>>

vars == <<mongo, hedera, memUsers, dbUsers, memTxs, dbTxs, now, created, pc, job,
          last, registered, seen, priceVars, executes, accessed>>

\* What the routes of users, transactions and the ledger leave alone.
rest == <<seen, priceVars, executes>>

config == <<mongo, hedera>>
userVars == <<memUsers, dbUsers, registered>>
txVars == <<memTxs, dbTxs, created>>

NoJob == [route |-> "none"]

\* The step reads or writes the stores S: memoryStore (users, txs, prices)
\* or the collections of the durable store.
Touch(S) == accessed' = accessed \cup S

\* A completed request: its route and input, the response sent, the number
\* of ledger network calls it made and of storage operations it issued, what
\* the ledger or the store did to it (outcome), and the seq of the
\* transaction document it stored (0: none).
Done(route, req, resp, ledger, store, outcome, seq) ==
  [route |-> route, req |-> req, resp |-> resp, ledger |-> ledger, store |-> store,
   outcome |-> outcome, seq |-> seq]

NoLast == Done("none", <<>>, Err(0, ""), 0, 0, "", 0)

\* The handler answers; its slot is free again.
Reply(s, route, req, resp, store, outcome) ==
  /\ pc' = [pc EXCEPT ![s] = "idle"]
  /\ job' = [job EXCEPT ![s] = NoJob]
  /\ last' = Done(route, req, resp, 0, store, outcome, 0)

Min(a, b) == IF a < b THEN a ELSE b
Max(a, b) == IF a > b THEN a ELSE b

(***************************************************************************)
(* POST /api/token/transfer                                                *)
(***************************************************************************)
TransferBody(t, f, k, o, a) ==
  [tokenId |-> t, fromAccountId |-> f, fromPrivateKey |-> k, toAccountId |-> o, amount |-> a]

\* Amounts BigInt converts.
GoodAmounts == {AmtNum(1), AmtNum(0 - 1), AmtStr(2)}

\* Request bodies: the well-formed ones, those without a key (with or
\* without another fault), and those with a key and one fault.
TransferBodies ==
  { TransferBody("0.0.100", f, GoodKey, "0.0.2", a) : f \in Accounts, a \in GoodAmounts }
  \cup { TransferBody("0.0.100", f, Undef, "0.0.2", a) :
           f \in {"0.0.1", MalformedId, Undef}, a \in {AmtNum(1), AmtNull, AmtText, AmtFrac} }
  \cup { TransferBody(Undef, "0.0.1", Undef, "0.0.2", AmtNum(1)),
         TransferBody("0.0.100", "0.0.1", Undef, MalformedId, AmtNum(1)),
         TransferBody("0.0.100", "0.0.1", "", "0.0.2", AmtNum(1)),
         TransferBody("0.0.100", "0.0.1", MalformedKey, "0.0.2", AmtNum(1)),
         TransferBody("0.0.100", "0.0.1", GoodKey, MalformedId, AmtNum(1)),
         TransferBody("0.0.100", MalformedId, GoodKey, "0.0.2", AmtNum(1)),
         TransferBody("0.0.100", "0.0.1", GoodKey, "0.0.2", AmtText),
         TransferBody("0.0.100", "0.0.1", GoodKey, "0.0.2", AmtNull),
         TransferBody("0.0.100", "0.0.1", GoodKey, "0.0.2", AmtEmpty),
         TransferBody("0.0.100", "0.0.1", GoodKey, "0.0.2", AmtLit(16)),
         TransferBody("0.0.100", "0.0.1", Undef, "0.0.2", AmtEmpty),
         TransferBody(Undef, "0.0.1", GoodKey, "0.0.2", AmtNum(1)) }

\* The two legs with the sign of the debit lost.
TransferLegs_Unsigned(b) ==
  << [tokenId |-> b.tokenId, accountId |-> b.fromAccountId, amount |-> BigInt(b.amount)],
     [tokenId |-> b.tokenId, accountId |-> b.toAccountId, amount |-> BigInt(b.amount)] >>

\* The two addTokenTransfer calls of the TransferTransaction.
TransferLegs(b) ==
  << [tokenId |-> b.tokenId, accountId |-> b.fromAccountId, amount |-> 0 - BigInt(b.amount)],
     [tokenId |-> b.tokenId, accountId |-> b.toAccountId, amount |-> BigInt(b.amount)] >>

\* TransactionId.generate(operator) at freezeWith: payer@validStart.
TransactionIdOf(t) == <<OperatorId, t>>

Proceed == Err(0, "")

\* The handler up to its first await (sign): the response it sends, or
\* Proceed when it reaches the await.
TransferSync(h, b) ==
  IF AuthError(h) # "" THEN Unauthorized(h)
  ELSE IF ~hedera THEN Err(500, "Hedera client not configured")
  ELSE IF Falsy(b.tokenId) \/ Falsy(b.fromAccountId) \/ Falsy(b.toAccountId)
          \/ Nullish(b.amount)
    THEN Err(400, "Missing fields")
  ELSE IF b.fromAccountId \notin Accounts
    THEN ErrD(500, "Transfer failed", "AccountId.fromString")
  ELSE IF BigIntThrows(b.amount) THEN ErrD(500, "Transfer failed", "BigInt")
  ELSE IF b.toAccountId \notin Accounts
    THEN ErrD(500, "Transfer failed", "AccountId.fromString")
  ELSE IF Falsy(b.fromPrivateKey)
    THEN Err(400, "fromPrivateKey required for server-side transfer. Use client-side signing for non-custodial flows.")
  ELSE IF b.fromPrivateKey # GoodKey
    THEN ErrD(500, "Transfer failed", "PrivateKey.fromString")
  ELSE Proceed

\* txDoc of the handler; a document of the memory store has no createdAt.
TransferDoc(b, status, txid) ==
  [accountId |-> b.fromAccountId, type |-> "TRANSFER", tokenId |-> b.tokenId,
   amount |-> b.amount, status |-> status, transactionId |-> txid, createdAt |-> <<>>]

\* Transaction.create(doc): mongoose casts amount and sets createdAt.
MongoDoc(doc, t) == [doc EXCEPT !.amount = CastNumber(doc.amount), !.createdAt = <<t>>]

Stamp(doc, n) == [seq |-> n] @@ doc

\* A handler that suspends takes the lowest free slot (slots are names of
\* the requests in flight, nothing of the server).
Free(s) == pc[s] = "idle" /\ \A z \in Slots : z < s => pc[z] # "idle"

\* Transaction documents not yet built by the transfers in flight.
Pending ==
  Cardinality({s \in Slots : pc[s] \in {"sign", "execute", "receipt"}
                              /\ job[s].route = "transfer"})

TransferBegin(s, h, b) ==
  /\ last = NoLast
  /\ LET r == TransferSync(h, b) IN
     IF r # Proceed
       THEN /\ last' = Done("transfer", [h |-> h, body |-> b], r, 0, 0, "notSubmitted", 0)
            /\ UNCHANGED <<pc, job>>
       ELSE /\ Free(s)
            /\ created + Pending < MaxTxs
            /\ pc' = [pc EXCEPT ![s] = "sign"]
            /\ job' = [job EXCEPT ![s] =
                 [route |-> "transfer", h |-> h, body |-> b, legs |-> TransferLegs(b),
                  transactionId |-> TransactionIdOf(now)]]
            /\ UNCHANGED last
  /\ UNCHANGED <<config, userVars, txVars, now>>
  /\ UNCHANGED accessed

\* await transferTx.freezeWith(hederaClient).sign(senderKey): the signed
\* transaction comes back and execute is called, or sign rejects.
TransferSign(s, signed) ==
  /\ last = NoLast
  /\ pc[s] = "sign"
  /\ job[s].route = "transfer"
  /\ IF signed
       THEN /\ pc' = [pc EXCEPT ![s] = "execute"]
            /\ UNCHANGED <<job, last>>
       ELSE /\ pc' = [pc EXCEPT ![s] = "idle"]
            /\ job' = [job EXCEPT ![s] = NoJob]
            /\ last' = Done("transfer", [h |-> job[s].h, body |-> job[s].body],
                            ErrD(500, "Transfer failed", "sign"), 0, 0, "notSubmitted", 0)
  /\ UNCHANGED <<config, userVars, txVars, now>>
  /\ UNCHANGED accessed

\* await signed.execute(hederaClient): the submission is accepted, refused
\* at precheck, or fails in transport.
ExecuteOutcomes == {"ok", "PrecheckStatusError", "network error"}

\* A handler that submits again when the submission failed.
TransferExecute_Retry(s, o) ==
  /\ last = NoLast
  /\ pc[s] = "execute"
  /\ job[s].route = "transfer"
  /\ IF o = "ok"
       THEN pc' = [pc EXCEPT ![s] = "receipt"]
       ELSE UNCHANGED pc
  /\ UNCHANGED <<job, last>>
  /\ UNCHANGED <<config, userVars, txVars, now>>
  /\ UNCHANGED accessed

TransferExecute(s, o) ==
  /\ last = NoLast
  /\ pc[s] = "execute"
  /\ job[s].route = "transfer"
  /\ IF o = "ok"
       THEN /\ pc' = [pc EXCEPT ![s] = "receipt"]
            /\ UNCHANGED <<job, last>>
       ELSE /\ pc' = [pc EXCEPT ![s] = "idle"]
            /\ job' = [job EXCEPT ![s] = NoJob]
            /\ last' = Done("transfer", [h |-> job[s].h, body |-> job[s].body],
                            ErrD(500, "Transfer failed", o), 1, 0, o, 0)
  /\ UNCHANGED <<config, userVars, txVars, now>>
  /\ UNCHANGED accessed

\* await resp.getReceipt(hederaClient): a receipt comes back with a status,
\* or the call throws: the ledger refused the transaction
\* (ReceiptStatusError) or no receipt could be obtained (timeout).
ReceiptStatuses == {"SUCCESS", "FAIL_INVALID"}
ReceiptThrows == {"ReceiptStatusError", "timeout"}

TransferReceipt(s, o) ==
  /\ last = NoLast
  /\ pc[s] = "receipt"
  /\ job[s].route = "transfer"
  /\ LET j == job[s]
         doc == TransferDoc(j.body, o, j.transactionId)
         ok == Ok([success |-> TRUE, transactionId |-> j.transactionId, status |-> o])
     IN
     IF o \in ReceiptThrows
       THEN /\ pc' = [pc EXCEPT ![s] = "idle"]
            /\ job' = [job EXCEPT ![s] = NoJob]
            /\ last' = Done("transfer", [h |-> j.h, body |-> j.body],
                            ErrD(500, "Transfer failed", o), 2, 0, o, 0)
            /\ UNCHANGED txVars
       ELSE IF mongo
         THEN /\ pc' = [pc EXCEPT ![s] = "store"]
              /\ job' = [job EXCEPT ![s] =
                   [doc |-> Stamp(MongoDoc(doc, now), created + 1), resp |-> ok] @@ j]
              /\ created' = created + 1
              /\ UNCHANGED <<memTxs, dbTxs, last>>
         ELSE /\ memTxs' = <<Stamp(doc, created + 1)>> \o memTxs
              /\ created' = created + 1
              /\ pc' = [pc EXCEPT ![s] = "idle"]
              /\ job' = [job EXCEPT ![s] = NoJob]
              /\ last' = Done("transfer", [h |-> j.h, body |-> j.body], ok, 2, 1, o,
                              created + 1)
              /\ UNCHANGED dbTxs
  /\ UNCHANGED <<config, userVars, now>>
  /\ Touch(IF o \notin ReceiptThrows /\ ~mongo THEN {"memory"} ELSE {})

\* The store runs the insert of Transaction.create(txDoc): the record is in
\* the collection while the handler still waits.
TransferInsert(s) ==
  /\ last = NoLast
  /\ pc[s] = "store"
  /\ job[s].route = "transfer"
  /\ dbTxs' = dbTxs \cup {job[s].doc}
  /\ pc' = [pc EXCEPT ![s] = "stored"]
  /\ UNCHANGED <<config, userVars, memTxs, created, now, job, last>>
  /\ Touch({"durable"})

\* Transaction.create with a fallback: when the durable store fails, the
\* record goes to memoryStore.txs and the transfer is answered as stored.
TransferStored_Fallback(s, stored) ==
  /\ last = NoLast
  /\ pc[s] \in {"store", "stored"}
  /\ job[s].route = "transfer"
  /\ stored <=> pc[s] = "stored"
  /\ LET j == job[s] IN
     /\ memTxs' = IF stored THEN memTxs ELSE <<j.doc>> \o memTxs
     /\ last' = Done("transfer", [h |-> j.h, body |-> j.body], j.resp, 2, 1,
                     IF stored THEN j.doc.status ELSE "store error", j.doc.seq)
  /\ pc' = [pc EXCEPT ![s] = "idle"]
  /\ job' = [job EXCEPT ![s] = NoJob]
  /\ UNCHANGED <<config, userVars, dbTxs, created, now>>
  /\ Touch(IF ~stored THEN {"memory"} ELSE {})

\* await Transaction.create(txDoc) resolves after the insert, or rejects
\* (the store failed and nothing was inserted); and the response.
TransferStored(s, stored) ==
  /\ last = NoLast
  /\ pc[s] \in {"store", "stored"}
  /\ job[s].route = "transfer"
  /\ stored <=> pc[s] = "stored"
  /\ LET j == job[s] IN
     last' = IF stored
               THEN Done("transfer", [h |-> j.h, body |-> j.body], j.resp, 2, 1,
                         j.doc.status, j.doc.seq)
               ELSE Done("transfer", [h |-> j.h, body |-> j.body],
                         ErrD(500, "Transfer failed", "store error"), 2, 1,
                         "store error", 0)
  /\ pc' = [pc EXCEPT ![s] = "idle"]
  /\ job' = [job EXCEPT ![s] = NoJob]
  /\ UNCHANGED <<config, userVars, txVars, now>>
  /\ UNCHANGED accessed

(***************************************************************************)
(* GET /api/transactions/:accountId and POST /api/transactions             *)
(***************************************************************************)
\* Array.prototype.slice(0, end): a negative end counts from the back.
Slice0(q, end) ==
  SubSeq(q, 1, IF end < 0 THEN Max(Len(q) + end, 0) ELSE Min(end, Len(q)))

\* memoryStore.txs.filter(t => t.accountId === accountId).slice(0, limit)
MemList(accountId, limit) ==
  Slice0(SelectSeq(memTxs, LAMBDA t : t.accountId = accountId), limit)

\* cursor.limit(n): 0 is no limit, a negative n is a limit of -n.
MongoLimit(q, n) ==
  IF n = 0 THEN q ELSE SubSeq(q, 1, Min(IF n < 0 THEN 0 - n ELSE n, Len(q)))

\* sort({createdAt: -1}): every order of the documents with createdAt not
\* increasing; documents of equal createdAt come in an order the sort does
\* not fix.
SortedNewestFirst(S) ==
  { q \in [1..Cardinality(S) -> S] :
      /\ \A i, k \in 1..Cardinality(S) : i # k => q[i] # q[k]
      /\ \A i, k \in 1..Cardinality(S) : i < k => q[i].createdAt[1] >= q[k].createdAt[1] }

\* Transaction.find({accountId}).sort({createdAt: -1}).limit(limit): the
\* results the query can give.
DbList(accountId, limit) ==
  { MongoLimit(q, limit) : q \in SortedNewestFirst({d \in dbTxs : d.accountId = accountId}) }

ListLimits == {<<>>, <<0 - 1>>, <<0>>, <<1>>}

\* GET /api/transactions/:accountId: the whole handler in memory mode, up
\* to await Transaction.find(...).exec() in durable mode.
GetTransactions(s, h, accountId, q) ==
  /\ last = NoLast
  /\ LET req == [h |-> h, accountId |-> accountId, limit |-> q]
         body(txs) == Ok([accountId |-> accountId, transactions |-> txs])
     IN
     IF AuthError(h) # ""
       THEN /\ last' = Done("transactions", req, Unauthorized(h), 0, 0, "", 0)
            /\ UNCHANGED <<pc, job>>
     ELSE IF ~mongo
       THEN /\ last' = Done("transactions", req, body(MemList(accountId, LimitOf(q))),
                            0, 1, "", 0)
            /\ UNCHANGED <<pc, job>>
     ELSE /\ Free(s)
          /\ pc' = [pc EXCEPT ![s] = "find"]
          /\ job' = [job EXCEPT ![s] = [route |-> "transactions", req |-> req]]
          /\ UNCHANGED last
  /\ UNCHANGED <<config, userVars, txVars, now>>
  /\ Touch(IF AuthError(h) = "" /\ ~mongo THEN {"memory"} ELSE {})

\* The store runs the query on the collection as it is now; its answer is
\* on the way to the handler.
GetTransactionsRead(s) ==
  /\ last = NoLast
  /\ pc[s] = "find"
  /\ job[s].route = "transactions"
  /\ \E r \in DbList(job[s].req.accountId, LimitOf(job[s].req.limit)) :
       job' = [job EXCEPT ![s] = [route |-> "transactions", req |-> job[s].req,
                                   txs |-> r]]
  /\ pc' = [pc EXCEPT ![s] = "found"]
  /\ UNCHANGED <<config, userVars, txVars, now, last>>
  /\ Touch({"durable"})

\* await Transaction.find(...).exec() resolves with the store's answer, or
\* rejects; and the response.
GetTransactionsFound(s, found) ==
  /\ last = NoLast
  /\ pc[s] \in {"find", "found"}
  /\ job[s].route = "transactions"
  /\ found <=> pc[s] = "found"
  /\ LET req == job[s].req IN
     IF found
       THEN Reply(s, "transactions", req,
                  Ok([accountId |-> req.accountId, transactions |-> job[s].txs]), 1, "")
       ELSE Reply(s, "transactions", req, Err(500, "Server error"), 1, "store error")
  /\ UNCHANGED <<config, userVars, txVars, now>>
  /\ UNCHANGED accessed

PostBody(a, st) ==
  [accountId |-> a, type |-> "TRANSFER", tokenId |-> "0.0.100", amount |-> AmtNum(1),
   status |-> st, transactionId |-> <<>>]

\* const tx = {accountId, ..., status = "PENDING", ..., createdAt: new Date()}
PostDoc(b, t) ==
  [accountId |-> b.accountId, type |-> b.type, tokenId |-> b.tokenId, amount |-> b.amount,
   status |-> IF b.status = Undef THEN "PENDING" ELSE b.status,
   transactionId |-> b.transactionId, createdAt |-> <<t>>]

PostTransaction(s, h, b) ==
  /\ last = NoLast
  /\ LET req == [h |-> h, body |-> b]
         doc == Stamp(PostDoc(b, now), created + 1)
     IN
     IF AuthError(h) # ""
       THEN /\ last' = Done("postTransaction", req, Unauthorized(h), 0, 0, "", 0)
            /\ UNCHANGED <<txVars, pc, job>>
       ELSE /\ created + Pending < MaxTxs
            /\ created' = created + 1
            /\ IF mongo
                 THEN /\ Free(s)
                      /\ pc' = [pc EXCEPT ![s] = "store"]
                      /\ job' = [job EXCEPT ![s] =
                           [route |-> "postTransaction", h |-> h, body |-> b, doc |-> doc]]
                      /\ UNCHANGED <<memTxs, dbTxs, last>>
                 ELSE /\ memTxs' = <<doc>> \o memTxs
                      /\ last' = Done("postTransaction", req,
                                      Ok([success |-> TRUE, tx |-> doc]), 0, 1, "", doc.seq)
                      /\ UNCHANGED <<dbTxs, pc, job>>
  /\ UNCHANGED <<config, userVars, now>>
  /\ Touch(IF AuthError(h) = "" /\ ~mongo THEN {"memory"} ELSE {})

\* The store runs the insert of Transaction.create(tx): the record is in
\* the collection while the handler still waits.
PostTransactionInsert(s) ==
  /\ last = NoLast
  /\ pc[s] = "store"
  /\ job[s].route = "postTransaction"
  /\ dbTxs' = dbTxs \cup {job[s].doc}
  /\ pc' = [pc EXCEPT ![s] = "stored"]
  /\ UNCHANGED <<config, userVars, memTxs, created, now, job, last>>
  /\ Touch({"durable"})

\* await Transaction.create(tx) resolves after the insert, or rejects (the
\* store failed and nothing was inserted); and the response.
PostTransactionStored(s, stored) ==
  /\ last = NoLast
  /\ pc[s] \in {"store", "stored"}
  /\ job[s].route = "postTransaction"
  /\ stored <=> pc[s] = "stored"
  /\ LET j == job[s] IN
     last' = IF stored
               THEN Done("postTransaction", [h |-> j.h, body |-> j.body],
                         Ok([success |-> TRUE, tx |-> j.doc]), 0, 1, "", j.doc.seq)
               ELSE Done("postTransaction", [h |-> j.h, body |-> j.body],
                         Err(500, "Server error"), 0, 1, "store error", 0)
  /\ pc' = [pc EXCEPT ![s] = "idle"]
  /\ job' = [job EXCEPT ![s] = NoJob]
  /\ UNCHANGED <<config, userVars, txVars, now>>
  /\ UNCHANGED accessed

(***************************************************************************)
(* The other ledger routes.  None writes to a store; each suspends at      *)
(* every await of the ledger SDK, where other handlers run.                *)
(***************************************************************************)
\* What the catch block reports when the awaited call threw.
Throws(step) ==
  IF step = "sign" THEN "sign throws"
  ELSE IF step = "execute" THEN "execute throws"
  ELSE "receipt throws"

\* The handler answers before its first await.
Answer(route, req, resp) ==
  /\ last' = Done(route, req, resp, 0, 0, "", 0)
  /\ UNCHANGED <<pc, job>>

\* The handler suspends at its first await.
Suspend(s, route, req, step) ==
  /\ Free(s)
  /\ pc' = [pc EXCEPT ![s] = step]
  /\ job' = [job EXCEPT ![s] = [route |-> route, req |-> req, calls |-> 0]]
  /\ UNCHANGED last

\* The handler of slot s is resumed from the await `step`: the call
\* resolved and the handler goes to its next await (to), or answers with
\* body when there is none (to = ""); or the call threw and the catch block
\* answers 500 with the route's failure text.  sign makes no network call;
\* execute and getReceipt make one each.
Resume(s, route, step, ok, to, failure, body) ==
  /\ last = NoLast
  /\ pc[s] = step
  /\ job[s].route = route
  /\ LET j == job[s]
         calls == j.calls + (IF step = "sign" THEN 0 ELSE 1)
     IN
     IF ok /\ to # ""
       THEN /\ pc' = [pc EXCEPT ![s] = to]
            /\ job' = [job EXCEPT ![s].calls = calls]
            /\ UNCHANGED last
       ELSE /\ pc' = [pc EXCEPT ![s] = "idle"]
            /\ job' = [job EXCEPT ![s] = NoJob]
            /\ last' = IF ok THEN Done(route, j.req, Ok(body), calls, 0, "ok", 0)
                       ELSE Done(route, j.req, ErrD(500, failure, Throws(step)), calls, 0,
                                 Throws(step), 0)
  /\ UNCHANGED <<config, userVars, txVars, now>>
  /\ UNCHANGED accessed

\* const { ..., initialSupply = 0, ... } = req.body
InitialSupplyOf(b) == IF b.initialSupply.t = "undefined" THEN AmtNum(0) ELSE b.initialSupply

CreateBody(n, d, i, t) ==
  [name |-> n, symbol |-> "ART", decimals |-> d, initialSupply |-> i,
   treasuryAccountId |-> t]

\* POST /api/token/create, up to await tokenCreate.execute.  Number(decimals)
\* never throws; BigInt(initialSupply) does.
TokenCreate(s, h, b) ==
  /\ last = NoLast
  /\ LET req == [h |-> h, body |-> b] IN
     IF AuthError(h) # "" THEN Answer("tokenCreate", req, Unauthorized(h))
     ELSE IF ~hedera
       THEN Answer("tokenCreate", req, Err(500, "Hedera client not configured on server"))
     ELSE IF Falsy(b.name) \/ Falsy(b.symbol)
       THEN Answer("tokenCreate", req, Err(400, "Missing name or symbol"))
     ELSE IF ~Falsy(b.treasuryAccountId) /\ b.treasuryAccountId \notin Accounts
       THEN Answer("tokenCreate", req,
                   ErrD(500, "Token creation failed", "AccountId.fromString"))
     ELSE IF BigIntThrows(InitialSupplyOf(b))
       THEN Answer("tokenCreate", req, ErrD(500, "Token creation failed", "BigInt"))
     ELSE Suspend(s, "tokenCreate", req, "execute")
  /\ UNCHANGED <<config, userVars, txVars, now>>
  /\ UNCHANGED accessed

\* await tokenCreate.execute(hederaClient)
TokenCreateExecute(s, ok) ==
  Resume(s, "tokenCreate", "execute", ok, "receipt", "Token creation failed", <<>>)

\* await txResponse.getReceipt(hederaClient), and the response
TokenCreateReceipt(s, ok) ==
  Resume(s, "tokenCreate", "receipt", ok, "", "Token creation failed",
         [success |-> TRUE, tokenId |-> "0.0.100", status |-> "SUCCESS"])

\* POST /api/token/associate, up to await ...freezeWith(hederaClient).sign
TokenAssociate(s, h, b) ==
  /\ last = NoLast
  /\ LET req == [h |-> h, body |-> b] IN
     IF AuthError(h) # "" THEN Answer("tokenAssociate", req, Unauthorized(h))
     ELSE IF ~hedera
       THEN Answer("tokenAssociate", req, Err(500, "Hedera client not configured"))
     ELSE IF Falsy(b.accountId) \/ Falsy(b.accountPrivateKey) \/ Falsy(b.tokenId)
       THEN Answer("tokenAssociate", req, Err(400, "Missing fields"))
     ELSE IF b.accountPrivateKey # GoodKey
       THEN Answer("tokenAssociate", req,
                   ErrD(500, "Association failed", "PrivateKey.fromString"))
     ELSE IF b.accountId \notin Accounts
       THEN Answer("tokenAssociate", req,
                   ErrD(500, "Association failed", "AccountId.fromString"))
     ELSE Suspend(s, "tokenAssociate", req, "sign")
  /\ UNCHANGED <<config, userVars, txVars, now>>
  /\ UNCHANGED accessed

TokenAssociateSign(s, ok) ==
  Resume(s, "tokenAssociate", "sign", ok, "execute", "Association failed", <<>>)

\* await assocTx.execute(hederaClient)
TokenAssociateExecute(s, ok) ==
  Resume(s, "tokenAssociate", "execute", ok, "receipt", "Association failed", <<>>)

\* await resp.getReceipt(hederaClient), and the response
TokenAssociateReceipt(s, ok) ==
  Resume(s, "tokenAssociate", "receipt", ok, "", "Association failed",
         [success |-> TRUE, tokenId |-> job[s].req.body.tokenId, status |-> "SUCCESS"])

\* POST /api/token/mint, up to await mintTx.execute
TokenMint(s, h, b) ==
  /\ last = NoLast
  /\ LET req == [h |-> h, body |-> b] IN
     IF AuthError(h) # "" THEN Answer("tokenMint", req, Unauthorized(h))
     ELSE IF ~hedera
       THEN Answer("tokenMint", req, Err(500, "Hedera client not configured"))
     ELSE IF Falsy(b.tokenId) \/ Nullish(b.amount)
       THEN Answer("tokenMint", req, Err(400, "Missing tokenId or amount"))
     ELSE IF BigIntThrows(b.amount)
       THEN Answer("tokenMint", req, ErrD(500, "Mint failed", "BigInt"))
     ELSE Suspend(s, "tokenMint", req, "execute")
  /\ UNCHANGED <<config, userVars, txVars, now>>
  /\ UNCHANGED accessed

\* await mintTx.execute(hederaClient)
TokenMintExecute(s, ok) ==
  Resume(s, "tokenMint", "execute", ok, "receipt", "Mint failed", <<>>)

\* await response.getReceipt(hederaClient), and the response
TokenMintReceipt(s, ok) ==
  Resume(s, "tokenMint", "receipt", ok, "", "Mint failed",
         [success |-> TRUE, tokenId |-> job[s].req.body.tokenId, status |-> "SUCCESS"])

\* GET /api/token/info/:tokenId, up to await ...execute
TokenInfo(s, h, tokenId) ==
  /\ last = NoLast
  /\ LET req == [h |-> h, tokenId |-> tokenId] IN
     IF AuthError(h) # "" THEN Answer("tokenInfo", req, Unauthorized(h))
     ELSE IF ~hedera
       THEN Answer("tokenInfo", req, Err(500, "Hedera client not configured"))
     ELSE Suspend(s, "tokenInfo", req, "execute")
  /\ UNCHANGED <<config, userVars, txVars, now>>
  /\ UNCHANGED accessed

\* await new TokenInfoQuery()...execute(hederaClient), and the response
TokenInfoExecute(s, ok) ==
  Resume(s, "tokenInfo", "execute", ok, "", "Failed to fetch token info",
         [tokenId |-> job[s].req.tokenId, info |-> "TokenInfo"])

\* A balance handler without the test of hederaClient: the query is built
\* and executed whether or not a client exists.
AccountBalance_NoClientCheck(s, h, accountId) ==
  /\ last = NoLast
  /\ LET req == [h |-> h, accountId |-> accountId] IN
     IF AuthError(h) # "" THEN Answer("accountBalance", req, Unauthorized(h))
     ELSE IF accountId \notin Accounts
       THEN Answer("accountBalance", req,
                   ErrD(500, "Failed to fetch balance", "AccountId.fromString"))
     ELSE Suspend(s, "accountBalance", req, "execute")
  /\ UNCHANGED <<config, userVars, txVars, now>>
  /\ UNCHANGED accessed

\* GET /api/account/balance/:accountId, up to await ...execute (a route
\* parameter is never empty: the test of !accountId cannot fire)
AccountBalance(s, h, accountId) ==
  /\ last = NoLast
  /\ LET req == [h |-> h, accountId |-> accountId] IN
     IF AuthError(h) # "" THEN Answer("accountBalance", req, Unauthorized(h))
     ELSE IF ~hedera
       THEN Answer("accountBalance", req, Err(500, "Hedera client not configured"))
     ELSE IF accountId \notin Accounts
       THEN Answer("accountBalance", req,
                   ErrD(500, "Failed to fetch balance", "AccountId.fromString"))
     ELSE Suspend(s, "accountBalance", req, "execute")
  /\ UNCHANGED <<config, userVars, txVars, now>>
  /\ UNCHANGED accessed

\* await new AccountBalanceQuery()...execute(hederaClient), and the response
AccountBalanceExecute(s, ok) ==
  Resume(s, "accountBalance", "execute", ok, "", "Failed to fetch balance",
         [hbar |-> 0, tokens |-> <<>>])

\* GET /api/health
Health ==
  /\ last = NoLast
  /\ last' = Done("health", <<>>,
                  Ok([status |-> "ok", hedera |-> IF hedera THEN "enabled" ELSE "disabled"]),
                  0, 0, "", 0)
  /\ UNCHANGED <<config, userVars, txVars, now, pc, job>>
  /\ UNCHANGED accessed

(***************************************************************************)
(* Users: POST /api/auth/register, login, recover, verify-password         *)
(***************************************************************************)
Usernames == {"alice", "bob"}
\* Password fields: strings, a JSON number (truthy, not a string), absent.
PasswordStrings == {"pw123", "hunter2"}
NumberPassword == "<number>"
IsString(x) == x \notin {Undef, NumberPassword}
Passphrases == {"passphraseA"}

\* bcrypt.hash(pw, 12) and bcrypt.compare(pw, hash); both reject (throw at
\* the await) when pw is not a string.
hashPassword(pw) == [bcrypt |-> pw]
comparePassword(pw, hash) == hash = [bcrypt |-> pw]

\* A lookup that never finds the username.
MemHas_Never(username) == FALSE

\* memoryStore.users is a Map: entries keep the order of first insertion.
MemHas(username) == \E i \in 1..Len(memUsers) : memUsers[i].username = username
MemGet(username) ==
  memUsers[CHOOSE i \in 1..Len(memUsers) : memUsers[i].username = username]
MemSet(username, u) ==
  IF MemHas(username)
    THEN [i \in 1..Len(memUsers) |->
            IF memUsers[i].username = username THEN u ELSE memUsers[i]]
    ELSE Append(memUsers, u)

\* User.findOne({username})
DbHas(username) == \E u \in dbUsers : u.username = username
DbGet(username) == CHOOSE u \in dbUsers : u.username = username

\* The user record of register.
NewUser(b, hash) ==
  [username |-> b.username, passwordHash |-> hash, passphrase |-> b.passphrase,
   accounts |-> <<>>]

\* Registrations are of one username or of none; logins name it, a
\* username never registered, none, and a query object.
RegisterBodies ==
  { [username |-> u, password |-> p, passphrase |-> f] :
      u \in {"alice", Undef},
      p \in PasswordStrings \cup {NumberPassword, Undef},
      f \in Passphrases \cup {Undef} }

\* POST /api/auth/register up to its first await: User.findOne in durable
\* mode, hashPassword in memory mode.  late: a registration of this
\* username has already answered success when the request arrives.
RegisterBegin(s, b) ==
  /\ last = NoLast
  /\ LET req == [body |-> b, late |-> b.username \in registered]
         to(step) == /\ Free(s)
                     /\ pc' = [pc EXCEPT ![s] = step]
                     /\ job' = [job EXCEPT ![s] = [route |-> "register", req |-> req]]
                     /\ UNCHANGED last
     IN
     IF Falsy(b.username) \/ Falsy(b.password) \/ Falsy(b.passphrase)
       THEN /\ last' = Done("register", req, Err(400, "Missing fields"), 0, 0, "", 0)
            /\ UNCHANGED <<pc, job>>
     ELSE IF mongo THEN to("findOne")
     ELSE IF MemHas(b.username)
       THEN /\ last' = Done("register", req, Err(400, "User exists"), 0, 1, "", 0)
            /\ UNCHANGED <<pc, job>>
     ELSE to("hash")
  /\ UNCHANGED <<config, userVars, txVars, now>>
  /\ Touch(IF ~Falsy(b.username) /\ ~Falsy(b.password) /\ ~Falsy(b.passphrase) /\ ~mongo THEN {"memory"} ELSE {})

\* The store evaluates the query of a handler waiting at findOne on the
\* collection as it is now: hit is what it gives, {} or one document; its
\* answer is on the way to the handler.
Looked(s, hit) ==
  /\ pc' = [pc EXCEPT ![s] = "found"]
  /\ job' = [job EXCEPT ![s] = [route |-> job[s].route, req |-> job[s].req, hit |-> hit]]
  /\ UNCHANGED <<config, userVars, txVars, now, last>>

\* The store runs User.findOne({username}) of register.
RegisterRead(s) ==
  /\ last = NoLast
  /\ pc[s] = "findOne"
  /\ job[s].route = "register"
  /\ Looked(s, {u \in dbUsers : u.username = job[s].req.body.username})
  /\ Touch({"durable"})

\* await User.findOne({username}).exec() resolves with the store's answer
\* (or rejects: the store failed), up to await hashPassword(password).
RegisterFound(s, found) ==
  /\ last = NoLast
  /\ pc[s] \in {"findOne", "found"}
  /\ job[s].route = "register"
  /\ found <=> pc[s] = "found"
  /\ LET req == job[s].req IN
     IF ~found THEN Reply(s, "register", req, Err(500, "Server error"), 1, "store error")
     ELSE IF job[s].hit # {}
       THEN Reply(s, "register", req, Err(400, "User exists"), 1, "")
     ELSE /\ pc' = [pc EXCEPT ![s] = "hash"]
          /\ job' = [job EXCEPT ![s] = [route |-> "register", req |-> req]]
          /\ UNCHANGED last
  /\ UNCHANGED <<config, userVars, txVars, now>>
  /\ UNCHANGED accessed

\* await hashPassword(password) resolves (or rejects: not a string): in
\* memory mode memoryStore.users.set and the response, in durable mode up to
\* await u.save().
RegisterHashed(s) ==
  /\ last = NoLast
  /\ pc[s] = "hash"
  /\ job[s].route = "register"
  /\ LET req == job[s].req
         b == req.body
         u == NewUser(b, hashPassword(b.password))
     IN
     IF ~IsString(b.password)
       THEN /\ Reply(s, "register", req, Err(500, "Server error"), 1, "")
            /\ UNCHANGED userVars
     ELSE IF mongo
       THEN /\ pc' = [pc EXCEPT ![s] = "save"]
            /\ UNCHANGED <<job, last, userVars>>
     ELSE /\ memUsers' = MemSet(b.username, u)
          /\ registered' = registered \cup {b.username}
          /\ Reply(s, "register", req,
                   Ok([success |-> TRUE, token |-> genToken(b.username)]), 2, "")
          /\ UNCHANGED dbUsers
  /\ UNCHANGED <<config, txVars, now>>
  /\ Touch(IF IsString(job[s].req.body.password) /\ ~mongo THEN {"memory"} ELSE {})

\* The store runs the insert of u.save(): the user is in the collection
\* while the handler still waits.  The unique index on username refuses the
\* insert when the username is taken by now.
RegisterInsert(s) ==
  /\ last = NoLast
  /\ pc[s] = "save"
  /\ job[s].route = "register"
  /\ LET b == job[s].req.body IN
     /\ ~DbHas(b.username)
     /\ dbUsers' = dbUsers \cup {NewUser(b, hashPassword(b.password))}
  /\ pc' = [pc EXCEPT ![s] = "saved"]
  /\ UNCHANGED <<config, memUsers, registered, txVars, now, job, last>>
  /\ Touch({"durable"})

\* await u.save() resolves after the insert, or rejects (the store failed
\* or refused the insert: nothing was inserted); and the response.
RegisterSaved(s, saved) ==
  /\ last = NoLast
  /\ pc[s] \in {"save", "saved"}
  /\ job[s].route = "register"
  /\ saved <=> pc[s] = "saved"
  /\ LET req == job[s].req
         b == req.body
     IN
     IF saved
       THEN /\ registered' = registered \cup {b.username}
            /\ Reply(s, "register", req,
                     Ok([success |-> TRUE, token |-> genToken(b.username)]), 2, "")
       ELSE /\ Reply(s, "register", req, Err(500, "Server error"), 2, "store error")
            /\ UNCHANGED registered
  /\ UNCHANGED <<config, memUsers, dbUsers, txVars, now>>
  /\ UNCHANGED accessed

\* A username that is not a string but a query object, {"$ne": null}.
QueryObject == "{$ne: null}"

LoginBodies ==
  { [username |-> u, password |-> p] :
      u \in Usernames \cup {Undef, QueryObject},
      p \in PasswordStrings \cup {NumberPassword, Undef} }

\* The user with this username in the store in use, <<>> when there is none.
FindUser(username) ==
  IF mongo THEN (IF DbHas(username) THEN <<DbGet(username)>> ELSE <<>>)
  ELSE (IF MemHas(username) THEN <<MemGet(username)>> ELSE <<>>)

\* The users the lookup of login can return.  User.findOne({username})
\* with a query object as username returns a document the operator
\* matches (here: any); memoryStore.users.get looks the value up as a key.
LoginMatches(username) ==
  IF mongo
    THEN (IF username = QueryObject THEN dbUsers
          ELSE {u \in dbUsers : u.username = username})
    ELSE (IF MemHas(username) THEN {MemGet(username)} ELSE {})

\* The handler goes to await comparePassword(password, u.passwordHash) with
\* the user it has read.
ToCompare(s, route, req, u) ==
  /\ pc' = [pc EXCEPT ![s] = "compare"]
  /\ job' = [job EXCEPT ![s] = [route |-> route, req |-> req, user |-> u]]
  /\ UNCHANGED last

\* POST /api/auth/login up to its first await: User.findOne in durable
\* mode, comparePassword after memoryStore.users.get in memory mode.
Login(s, b) ==
  /\ last = NoLast
  /\ IF mongo
       THEN /\ Free(s)
            /\ pc' = [pc EXCEPT ![s] = "findOne"]
            /\ job' = [job EXCEPT ![s] = [route |-> "login", req |-> b]]
            /\ UNCHANGED last
     ELSE IF LoginMatches(b.username) = {}
       THEN /\ last' = Done("login", b, Err(400, "Invalid credentials"), 0, 1, "", 0)
            /\ UNCHANGED <<pc, job>>
     ELSE /\ Free(s)
          /\ \E u \in LoginMatches(b.username) : ToCompare(s, "login", b, u)
  /\ UNCHANGED <<config, userVars, txVars, now>>
  /\ Touch(IF ~mongo THEN {"memory"} ELSE {})

\* The store runs User.findOne({username}) of login: one of the documents
\* that match, when any does.
LoginRead(s) ==
  /\ last = NoLast
  /\ pc[s] = "findOne"
  /\ job[s].route = "login"
  /\ LET hits == LoginMatches(job[s].req.username) IN
     \E hit \in (IF hits = {} THEN {{}} ELSE {{u} : u \in hits}) : Looked(s, hit)
  /\ Touch({"durable"})

\* await User.findOne({username}).exec() resolves with the store's answer
\* (or rejects), up to await comparePassword.
LoginFound(s, found) ==
  /\ last = NoLast
  /\ pc[s] \in {"findOne", "found"}
  /\ job[s].route = "login"
  /\ found <=> pc[s] = "found"
  /\ LET b == job[s].req IN
     IF ~found THEN Reply(s, "login", b, Err(500, "Server error"), 1, "store error")
     ELSE IF job[s].hit = {}
       THEN Reply(s, "login", b, Err(400, "Invalid credentials"), 1, "")
     ELSE \E u \in job[s].hit : ToCompare(s, "login", b, u)
  /\ UNCHANGED <<config, userVars, txVars, now>>
  /\ UNCHANGED accessed

\* await comparePassword resolves (or rejects: not a string), and the
\* response.
LoginCompared(s) ==
  /\ last = NoLast
  /\ pc[s] = "compare"
  /\ job[s].route = "login"
  /\ LET b == job[s].req
         u == job[s].user
     IN
     Reply(s, "login", b,
           IF ~IsString(b.password) THEN Err(500, "Server error")
           ELSE IF ~comparePassword(b.password, u.passwordHash)
             THEN Err(400, "Invalid credentials")
           ELSE Ok([success |-> TRUE, token |-> genToken(b.username)]),
           1, "")
  /\ UNCHANGED <<config, userVars, txVars, now>>
  /\ UNCHANGED accessed

\* The users recover can resolve a passphrase to: the first entry of the
\* Map that matches, or any matching document (findOne fixes no order).
RecoverMatches(passphrase) ==
  IF mongo THEN {u \in dbUsers : u.passphrase = passphrase}
  ELSE LET hits == {i \in 1..Len(memUsers) : memUsers[i].passphrase = passphrase} IN
       IF hits = {} THEN {} ELSE {memUsers[CHOOSE i \in hits : \A k \in hits : i <= k]}

\* POST /api/auth/recover: the whole handler in memory mode (a loop without
\* await), up to await User.findOne({passphrase}) in durable mode.
Recover(s, passphrase) ==
  /\ last = NoLast
  /\ LET answer(resp, store) ==
           /\ last' = Done("recover", passphrase, resp, 0, store, "", 0)
           /\ UNCHANGED <<pc, job>>
     IN
     IF Falsy(passphrase) THEN answer(Err(400, "Missing passphrase"), 0)
     ELSE IF mongo
       THEN /\ Free(s)
            /\ pc' = [pc EXCEPT ![s] = "findOne"]
            /\ job' = [job EXCEPT ![s] = [route |-> "recover", req |-> passphrase]]
            /\ UNCHANGED last
     ELSE IF RecoverMatches(passphrase) = {}
       THEN answer(Err(400, "Invalid passphrase"), 1)
     ELSE \E u \in RecoverMatches(passphrase) :
            answer(Ok([success |-> TRUE, token |-> genToken(u.username)]), 1)
  /\ UNCHANGED <<config, userVars, txVars, now>>
  /\ Touch(IF ~Falsy(passphrase) /\ ~mongo THEN {"memory"} ELSE {})

\* The store runs User.findOne({passphrase}) of recover: one of the
\* documents that match, when any does.
RecoverRead(s) ==
  /\ last = NoLast
  /\ pc[s] = "findOne"
  /\ job[s].route = "recover"
  /\ LET hits == RecoverMatches(job[s].req) IN
     \E hit \in (IF hits = {} THEN {{}} ELSE {{u} : u \in hits}) : Looked(s, hit)
  /\ Touch({"durable"})

\* await User.findOne({passphrase}).exec() resolves with the store's answer
\* (or rejects), and the response.
RecoverFound(s, found) ==
  /\ last = NoLast
  /\ pc[s] \in {"findOne", "found"}
  /\ job[s].route = "recover"
  /\ found <=> pc[s] = "found"
  /\ LET passphrase == job[s].req IN
     IF ~found
       THEN Reply(s, "recover", passphrase, Err(500, "Server error"), 1, "store error")
     ELSE IF job[s].hit = {}
       THEN Reply(s, "recover", passphrase, Err(400, "Invalid passphrase"), 1, "")
     ELSE \E u \in job[s].hit :
            Reply(s, "recover", passphrase,
                  Ok([success |-> TRUE, token |-> genToken(u.username)]), 1, "")
  /\ UNCHANGED <<config, userVars, txVars, now>>
  /\ UNCHANGED accessed

\* POST /api/auth/verify-password up to its first await.
VerifyPassword(s, h, password) ==
  /\ last = NoLast
  /\ LET req == [h |-> h, password |-> password]
         answer(resp, store) ==
           /\ last' = Done("verifyPassword", req, resp, 0, store, "", 0)
           /\ UNCHANGED <<pc, job>>
     IN
     IF AuthError(h) # "" THEN answer(Unauthorized(h), 0)
     ELSE IF Falsy(h[2].username) THEN answer(Err(400, "No user"), 0)
     ELSE IF mongo
       THEN /\ Free(s)
            /\ pc' = [pc EXCEPT ![s] = "findOne"]
            /\ job' = [job EXCEPT ![s] = [route |-> "verifyPassword", req |-> req]]
            /\ UNCHANGED last
     ELSE IF FindUser(h[2].username) = <<>> THEN answer(Err(400, "User not found"), 1)
     ELSE /\ Free(s)
          /\ ToCompare(s, "verifyPassword", req, FindUser(h[2].username)[1])
  /\ UNCHANGED <<config, userVars, txVars, now>>
  /\ Touch(IF AuthError(h) = "" /\ ~Falsy(h[2].username) /\ ~mongo THEN {"memory"} ELSE {})

\* The store runs User.findOne({username}) of verify-password.
VerifyPasswordRead(s) ==
  /\ last = NoLast
  /\ pc[s] = "findOne"
  /\ job[s].route = "verifyPassword"
  /\ LET u == FindUser(job[s].req.h[2].username) IN
     Looked(s, IF u = <<>> THEN {} ELSE {u[1]})
  /\ Touch({"durable"})

\* await User.findOne({username}).exec() resolves with the store's answer
\* (or rejects), up to await comparePassword.
VerifyPasswordFound(s, found) ==
  /\ last = NoLast
  /\ pc[s] \in {"findOne", "found"}
  /\ job[s].route = "verifyPassword"
  /\ found <=> pc[s] = "found"
  /\ LET req == job[s].req IN
     IF ~found
       THEN Reply(s, "verifyPassword", req, Err(500, "Server error"), 1, "store error")
     ELSE IF job[s].hit = {}
       THEN Reply(s, "verifyPassword", req, Err(400, "User not found"), 1, "")
     ELSE \E u \in job[s].hit : ToCompare(s, "verifyPassword", req, u)
  /\ UNCHANGED <<config, userVars, txVars, now>>
  /\ UNCHANGED accessed

\* await comparePassword resolves (or rejects: not a string), and the
\* response.
VerifyPasswordCompared(s) ==
  /\ last = NoLast
  /\ pc[s] = "compare"
  /\ job[s].route = "verifyPassword"
  /\ LET req == job[s].req
         u == job[s].user
     IN
     Reply(s, "verifyPassword", req,
           IF ~IsString(req.password) THEN Err(500, "Server error")
           ELSE Ok([success |-> comparePassword(req.password, u.passwordHash)]),
           1, "")
  /\ UNCHANGED <<config, userVars, txVars, now>>
  /\ UNCHANGED accessed

(***************************************************************************)
(* Prices: fetchCoinGecko, priceUpdaterOnce, GET /api/prices, startServer   *)
(***************************************************************************)
\* COINGECKO_IDS, two ids tracked.
CoinIds == <<"hedera-hashgraph", "bitcoin">>

\* await fetch(url): a 2xx answer with the prices, another status, or a
\* transport error.  (No answer at all: the fetch stays pending.)
FetchOutcomes == {"ok", "http error", "network error"}

\* What fetchCoinGecko returns for the n-th answer of the oracle, whose
\* prices are written n.
fetchCoinGecko(o, n) ==
  IF o = "ok"
    THEN [ok |-> TRUE,
          data |-> [i \in 1..Len(CoinIds) |->
                      [coinId |-> CoinIds[i], usd |-> n, updatedAt |-> now]]]
    ELSE [ok |-> FALSE, data |-> <<>>]

RunSlots == {1, 2}
NoRun == [result |-> "none"]
\* A run of priceUpdaterOnce that has ended, and how.
Ended(result) == [result |-> result]

\* The process serves requests.
Serving == alive /\ phase = "listening"

\* A catch block that ends the process, as the one of startServer does.
RefreshCatch_Exit == FALSE

\* The catch block of priceUpdaterOnce logs the error: the process lives on.
RefreshCatch == alive

\* What ends with a run: after the run awaited by startServer come
\* setInterval and app.listen.
RunEnds(s, result) ==
  /\ rpc' = [rpc EXCEPT ![s] = "idle"]
  /\ rjob' = [rjob EXCEPT ![s] = Ended(result)]
  /\ IF phase = "refresh"
       THEN phase' = "listening" /\ timer' = TRUE
       ELSE UNCHANGED <<phase, timer>>

\* What a refresh does to the record of the last read.
Noted(failed, wrote) ==
  [watch EXCEPT !.failed = @ \/ failed, !.wrote = @ \/ wrote]

\* startServer up to the first await inside priceUpdaterOnce: mongoConnect
\* returns at once without MONGO_URI; mongoose.connect resolves, or rejects
\* and the catch block of startServer exits the process.
MongoConnect(connected) ==
  /\ last = NoLast
  /\ alive /\ phase = "connect"
  /\ IF mongo /\ ~connected
       THEN /\ phase' = "exited"
            /\ alive' = FALSE
            /\ UNCHANGED <<started, rpc, rjob>>
       ELSE /\ phase' = "refresh"
            /\ started' = started + 1
            /\ rpc' = [rpc EXCEPT ![1] = "fetch"]
            /\ rjob' = [rjob EXCEPT ![1] = [result |-> "running"]]
            /\ UNCHANGED alive
  /\ UNCHANGED <<config, userVars, txVars, now, pc, job, last, seen, executes,
                 timer, ticks, fetches, memPrices, dbPrices, watch>>
  /\ UNCHANGED accessed

\* A timer callback that skips the tick while a run is under way.
TimerFires_SkipBusy(s) ==
  /\ last = NoLast
  /\ alive /\ timer
  /\ started < MaxRuns
  /\ rpc[s] = "idle" /\ \A z \in RunSlots : z < s => rpc[z] # "idle"
  /\ ticks' = ticks + 1
  /\ IF \E z \in RunSlots : rpc[z] # "idle"
       THEN UNCHANGED <<started, rpc, rjob>>
       ELSE /\ started' = started + 1
            /\ rpc' = [rpc EXCEPT ![s] = "fetch"]
            /\ rjob' = [rjob EXCEPT ![s] = [result |-> "running"]]
  /\ UNCHANGED <<config, userVars, txVars, now, pc, job, last, seen, executes,
                 phase, alive, timer, fetches, memPrices, dbPrices, watch>>
  /\ UNCHANGED accessed

\* The interval timer fires and calls priceUpdaterOnce, whatever earlier
\* runs did and whether or not one is still under way.
TimerFires(s) ==
  /\ last = NoLast
  /\ alive /\ timer
  /\ started < MaxRuns
  /\ rpc[s] = "idle" /\ \A z \in RunSlots : z < s => rpc[z] # "idle"
  /\ ticks' = ticks + 1
  /\ started' = started + 1
  /\ rpc' = [rpc EXCEPT ![s] = "fetch"]
  /\ rjob' = [rjob EXCEPT ![s] = [result |-> "running"]]
  /\ UNCHANGED <<config, userVars, txVars, now, pc, job, last, seen, executes,
                 phase, alive, timer, fetches, memPrices, dbPrices, watch>>
  /\ UNCHANGED accessed

\* await fetch(url) of a run resolves or rejects.  A rejection is caught
\* inside fetchCoinGecko and the run returns; otherwise the run waits for
\* the body, await r.text() on a status that is not 2xx and await r.json()
\* on 2xx.  The answers of the oracle are numbered, and the prices of the
\* n-th answer are written n.
OracleAnswers(s, o) ==
  /\ last = NoLast
  /\ alive /\ rpc[s] = "fetch"
  /\ fetches < MaxFetches
  /\ fetches' = fetches + 1
  /\ IF o = "network error"
       THEN /\ RunEnds(s, o)
            /\ watch' = Noted(TRUE, FALSE)
     ELSE /\ rpc' = [rpc EXCEPT ![s] = IF o = "ok" THEN "json" ELSE "text"]
          /\ rjob' = [rjob EXCEPT ![s] = [result |-> "running", n |-> fetches + 1]]
          /\ UNCHANGED <<watch, phase, timer>>
  /\ UNCHANGED <<config, userVars, txVars, now, pc, job, last, seen, executes,
                 alive, ticks, started, memPrices, dbPrices>>
  /\ UNCHANGED accessed

\* The body has been read (or reading it failed): fetchCoinGecko returns.
\* With {ok: false} the run returns; with the data the run assigns
\* memoryStore.prices in memory mode and calls the first findOneAndUpdate
\* in durable mode, with an update whose updatedAt is the clock at the call
\* (at).
OracleBody(s, read) ==
  /\ last = NoLast
  /\ alive /\ rpc[s] \in {"json", "text"}
  /\ LET o == IF rpc[s] = "text" THEN "http error"
              ELSE IF read THEN "ok" ELSE "network error"
         r == fetchCoinGecko(o, rjob[s].n)
     IN
     IF ~r.ok
       THEN /\ RunEnds(s, o)
            /\ watch' = Noted(TRUE, FALSE)
            /\ UNCHANGED <<memPrices, dbPrices>>
     ELSE IF mongo
       THEN /\ rpc' = [rpc EXCEPT ![s] = "find"]
            /\ rjob' = [rjob EXCEPT ![s] = [result |-> "running", data |-> r.data,
                                             i |-> 1, at |-> now, hit |-> {}]]
            /\ UNCHANGED <<memPrices, dbPrices, watch, phase, timer>>
     ELSE /\ memPrices' = <<r.data>>
          /\ RunEnds(s, "done")
          /\ watch' = Noted(FALSE, TRUE)
          /\ UNCHANGED dbPrices
  /\ UNCHANGED <<config, userVars, txVars, now, pc, job, last, seen, executes,
                 alive, ticks, started, fetches>>
  /\ Touch(IF rpc[s] = "json" /\ read /\ ~mongo THEN {"memory"} ELSE {})

\* Price.findOneAndUpdate({coinId}, ..., {upsert: true}), first half: the
\* store looks for a document of the coin (any, when there are several),
\* or the operation fails and the run ends in its catch block.
UpsertFind(s, answered) ==
  /\ last = NoLast
  /\ alive /\ rpc[s] = "find"
  /\ LET p == rjob[s].data[rjob[s].i]
         hits == {d \in dbPrices : d.coinId = p.coinId}
     IN
     IF ~answered
       THEN /\ RunEnds(s, "store error")
            /\ alive' = RefreshCatch
            /\ watch' = [watch EXCEPT !.cut = TRUE]
     ELSE /\ \E hit \in (IF hits = {} THEN {{}} ELSE {{d} : d \in hits}) :
               rjob' = [rjob EXCEPT ![s].hit = hit]
          /\ rpc' = [rpc EXCEPT ![s] = "write"]
          /\ UNCHANGED <<alive, phase, timer, watch>>
  /\ UNCHANGED <<config, userVars, txVars, now, pc, job, last, seen, executes,
                 ticks, started, fetches, memPrices, dbPrices>>
  /\ Touch(IF answered THEN {"durable"} ELSE {})

\* Second half: the store updates the document found, or, none found,
\* inserts a new one, with the updatedAt of the call; the run still waits.
UpsertWrite(s) ==
  /\ last = NoLast
  /\ alive /\ rpc[s] = "write"
  /\ LET j == rjob[s]
         p == j.data[j.i]
         doc(id) == [id |-> id, coinId |-> p.coinId, usd |-> p.usd, updatedAt |-> j.at]
     IN
     dbPrices' = IF j.hit = {}
                   THEN dbPrices \cup {doc(Cardinality(dbPrices) + 1)}
                   ELSE {IF d \in j.hit THEN doc(d.id) ELSE d : d \in dbPrices}
  /\ rpc' = [rpc EXCEPT ![s] = "written"]
  /\ watch' = Noted(FALSE, TRUE)
  /\ UNCHANGED <<config, userVars, txVars, now, pc, job, last, seen, executes,
                 phase, alive, timer, ticks, started, fetches, memPrices, rjob>>
  /\ Touch({"durable"})

\* await Price.findOneAndUpdate(...) resolves: the loop calls
\* findOneAndUpdate for the next coin (updatedAt: the clock now), or the
\* run ends.
UpsertDone(s) ==
  /\ last = NoLast
  /\ alive /\ rpc[s] = "written"
  /\ LET j == rjob[s] IN
     IF j.i < Len(j.data)
       THEN /\ rjob' = [rjob EXCEPT ![s].i = j.i + 1, ![s].at = now, ![s].hit = {}]
            /\ rpc' = [rpc EXCEPT ![s] = "find"]
            /\ UNCHANGED <<phase, timer>>
       ELSE RunEnds(s, "done")
  /\ UNCHANGED <<config, userVars, txVars, now, pc, job, last, seen, executes,
                 alive, ticks, started, fetches, memPrices, dbPrices, watch>>
  /\ UNCHANGED accessed

\* What the routes of prices leave alone.
priceRest == <<config, userVars, txVars, now, seen, executes, phase, timer,
               ticks, started, memPrices, dbPrices, rpc, rjob>>

\* A price read starts a new record of what refreshes do after it: in
\* durable mode when the store runs its query, in memory mode when it is
\* answered with a body.
Watching(snapshots) ==
  [read |-> <<snapshots>>, failed |-> FALSE, wrote |-> FALSE, cut |-> watch.cut]

Watched(resp) == IF resp.code = 200 THEN Watching(resp.body) ELSE watch

\* GET /api/prices up to its first await: Price.find({}) in durable mode,
\* the fetch of fetchCoinGecko otherwise.
PricesGet(s) ==
  /\ last = NoLast
  /\ Serving
  /\ Free(s)
  /\ pc' = [pc EXCEPT ![s] = IF mongo THEN "find" ELSE "fetch"]
  /\ job' = [job EXCEPT ![s] = [route |-> "prices"]]
  /\ UNCHANGED <<last, fetches, watch>>
  /\ UNCHANGED priceRest
  /\ UNCHANGED accessed

\* The store runs Price.find({}) on the collection as it is now; its answer
\* is on the way to the handler.
PricesRead(s) ==
  /\ last = NoLast
  /\ alive
  /\ pc[s] = "find" /\ job[s].route = "prices"
  /\ pc' = [pc EXCEPT ![s] = "found"]
  /\ job' = [job EXCEPT ![s] = [route |-> "prices", docs |-> dbPrices]]
  /\ watch' = Watching(dbPrices)
  /\ UNCHANGED <<last, fetches>>
  /\ UNCHANGED priceRest
  /\ Touch({"durable"})

\* await Price.find({}).exec() resolves with the store's answer, or
\* rejects; and the response.
PricesFound(s, found) ==
  /\ last = NoLast
  /\ alive
  /\ pc[s] \in {"find", "found"} /\ job[s].route = "prices"
  /\ found <=> pc[s] = "found"
  /\ pc' = [pc EXCEPT ![s] = "idle"]
  /\ job' = [job EXCEPT ![s] = NoJob]
  /\ last' = IF found THEN Done("prices", <<>>, Ok(job[s].docs), 0, 1, "", 0)
             ELSE Done("prices", <<>>, Err(500, "Server error"), 0, 1, "store error", 0)
  /\ UNCHANGED <<fetches, watch>>
  /\ UNCHANGED priceRest
  /\ UNCHANGED accessed

\* await fetch(url) of the handler's fetchCoinGecko resolves or rejects.
PricesFetched(s, o) ==
  /\ last = NoLast
  /\ alive
  /\ pc[s] = "fetch" /\ job[s].route = "prices"
  /\ fetches < MaxFetches
  /\ fetches' = fetches + 1
  /\ IF o = "network error"
       THEN /\ pc' = [pc EXCEPT ![s] = "idle"]
            /\ job' = [job EXCEPT ![s] = NoJob]
            /\ last' = Done("prices", <<>>, Err(502, "Coingecko fetch failed"), 0, 0, o, 0)
       ELSE /\ pc' = [pc EXCEPT ![s] = IF o = "ok" THEN "json" ELSE "text"]
            /\ job' = [job EXCEPT ![s] = [route |-> "prices", n |-> fetches + 1]]
            /\ UNCHANGED last
  /\ UNCHANGED watch
  /\ UNCHANGED priceRest
  /\ UNCHANGED accessed

\* The body has been read (or reading it failed), and the response.
PricesBody(s, read) ==
  /\ last = NoLast
  /\ alive
  /\ pc[s] \in {"json", "text"} /\ job[s].route = "prices"
  /\ LET o == IF pc[s] = "text" THEN "http error"
              ELSE IF read THEN "ok" ELSE "network error"
         r == fetchCoinGecko(o, job[s].n)
     IN
     last' = IF r.ok THEN Done("prices", <<>>, Ok(r.data), 0, 0, o, 0)
             ELSE Done("prices", <<>>, Err(502, "Coingecko fetch failed"), 0, 0, o, 0)
  /\ pc' = [pc EXCEPT ![s] = "idle"]
  /\ job' = [job EXCEPT ![s] = NoJob]
  /\ watch' = Watched(last'.resp)
  /\ UNCHANGED fetches
  /\ UNCHANGED priceRest
  /\ UNCHANGED accessed

\* The response is on the wire: last holds a response only in the state its
\* handler's final step leads to, and no step is taken from that state but
\* this one (which changes nothing of the server).
Sent ==
  /\ last # NoLast
  /\ last' = NoLast
  /\ UNCHANGED <<config, userVars, txVars, now, pc, job>>
  /\ UNCHANGED accessed

\* A handler whose catch block ends the process.
HandlerCatch_Exit == FALSE

\* The catch block of a route handler logs the error and answers 500; what
\* escapes a handler is logged by the unhandledRejection and
\* uncaughtException handlers: the process lives on.
HandlerCatch == alive

\* The response comes from the catch block of its handler: every 500 but
\* the one a ledger route sends when it finds no hederaClient.
Caught(l) ==
  /\ l.resp.code = 500
  /\ l.resp.error \notin {"Hedera client not configured",
                          "Hedera client not configured on server"}

\* What the step of a route handler does to the process: requests are
\* taken while the server is listening, and a step that ends in the catch
\* block leaves the process as the catch block does.
Handled ==
  /\ Serving
  /\ alive' = IF last' # NoLast /\ Caught(last') THEN HandlerCatch ELSE alive

\* What the routes of users, transactions and the ledger leave alone of
\* the refresher and the observations.
served == <<seen, executes, phase, timer, ticks, started, fetches, memPrices, dbPrices,
            rpc, rjob, watch>>

\* Time passes.
Tick ==
  /\ last = NoLast
  /\ now < MaxTime
  /\ now' = now + 1
  /\ UNCHANGED <<config, userVars, txVars, pc, job, last>>
  /\ UNCHANGED accessed

(***************************************************************************)
(* The server after startServer: both stores empty, nothing in flight.     *)
(***************************************************************************)
Init ==
  /\ mongo \in BOOLEAN
  /\ hedera \in BOOLEAN
  /\ memUsers = <<>>
  /\ dbUsers = {}
  /\ memTxs = <<>>
  /\ dbTxs = {}
  /\ now = 0
  /\ created = 0
  /\ pc = [s \in Slots |-> "idle"]
  /\ job = [s \in Slots |-> NoJob]
  /\ last = NoLast
  /\ registered = {}
  /\ seen = {}
  /\ phase = "listening"
  /\ alive = TRUE
  /\ timer = TRUE
  /\ ticks = 0
  /\ started = 1
  /\ fetches = 1
  /\ memPrices = <<>>
  /\ dbPrices = {}
  /\ rpc = [s \in RunSlots |-> "idle"]
  /\ rjob = [s \in RunSlots |-> IF s = 1 THEN Ended("network error") ELSE NoRun]
  /\ watch = [read |-> <<>>, failed |-> TRUE, wrote |-> FALSE, cut |-> FALSE]
  /\ executes = 0
  /\ accessed = {}

\* The process at the call of startServer: nothing stored, nothing started.
InitBoot ==
  /\ mongo \in BOOLEAN
  /\ hedera \in BOOLEAN
  /\ memUsers = <<>>
  /\ dbUsers = {}
  /\ memTxs = <<>>
  /\ dbTxs = {}
  /\ now = 0
  /\ created = 0
  /\ pc = [s \in Slots |-> "idle"]
  /\ job = [s \in Slots |-> NoJob]
  /\ last = NoLast
  /\ registered = {}
  /\ seen = {}
  /\ phase = "connect"
  /\ alive = TRUE
  /\ timer = FALSE
  /\ ticks = 0
  /\ started = 0
  /\ fetches = 0
  /\ memPrices = <<>>
  /\ dbPrices = {}
  /\ rpc = [s \in RunSlots |-> "idle"]
  /\ rjob = [s \in RunSlots |-> NoRun]
  /\ watch = [read |-> <<>>, failed |-> FALSE, wrote |-> FALSE, cut |-> FALSE]
  /\ executes = 0
  /\ accessed = {}

ValidHeader == <<"Bearer", genToken("alice")>>

\* Requests of the ledger-and-log specification, all with a valid
\* credential: transfers of a string amount from one account, well-formed,
\* without a key and with a malformed key; reads of every account under
\* every limit; client reports for every account.  A read of the durable
\* store is begun while no other request is in flight (it takes the first
\* slot) and the requests begun after it overlap it; a read of the memory
\* store has no await and runs between any two steps of the others.
MainTransfers ==
  { <<ValidHeader, TransferBody("0.0.100", "0.0.1", k, "0.0.2", a)>> :
      k \in {GoodKey, MalformedKey, Undef}, a \in {AmtStr(2)} }
MainGets == { <<ValidHeader, a, q>> : a \in Accounts, q \in ListLimits }
MainPosts == { <<ValidHeader, PostBody(a, Undef)>> : a \in Accounts }

\* Requests of the gate specification: with a valid credential every
\* transfer body from an account other than 0.0.2 and one transfer from
\* 0.0.2 to itself, and under every header a well-formed and a keyless
\* transfer, a read and a client report.
GateTransfers ==
  { <<ValidHeader, b>> : b \in {x \in TransferBodies : x.fromAccountId # "0.0.2"} }
  \cup { <<ValidHeader, TransferBody("0.0.100", "0.0.2", GoodKey, "0.0.2", AmtNum(1))>> }
  \cup { <<h, TransferBody("0.0.100", "0.0.1", k, "0.0.2", AmtNum(1))>> :
           h \in Headers, k \in {GoodKey, Undef} }
GateGets == { <<h, "0.0.1", <<>> >> : h \in Headers }
GatePosts == { <<h, PostBody("0.0.1", st)>> : h \in Headers, st \in {Undef, "SUCCESS"} }

\* The transfer route, the transaction log and the clock.
Next ==
  \/ \E s \in Slots, r \in MainTransfers : TransferBegin(s, r[1], r[2]) /\ UNCHANGED rest
  \/ \E s \in Slots, signed \in BOOLEAN : TransferSign(s, signed) /\ UNCHANGED rest
  \/ \E s \in Slots, o \in ExecuteOutcomes : TransferExecute(s, o) /\ UNCHANGED rest
  \/ \E s \in Slots, o \in ReceiptStatuses \cup ReceiptThrows :
       TransferReceipt(s, o) /\ UNCHANGED rest
  \/ \E s \in Slots : TransferInsert(s) /\ UNCHANGED rest
  \/ \E s \in Slots, stored \in BOOLEAN : TransferStored(s, stored) /\ UNCHANGED rest
  \/ \E r \in MainGets :
       GetTransactions(1, r[1], r[2], r[3]) /\ UNCHANGED rest
  \/ GetTransactionsRead(1) /\ UNCHANGED rest
  \/ \E found \in BOOLEAN : GetTransactionsFound(1, found) /\ UNCHANGED rest
  \/ \E s \in Slots, r \in MainPosts : PostTransaction(s, r[1], r[2]) /\ UNCHANGED rest
  \/ \E s \in Slots : PostTransactionInsert(s) /\ UNCHANGED rest
  \/ \E s \in Slots, stored \in BOOLEAN : PostTransactionStored(s, stored) /\ UNCHANGED rest
  \/ Tick /\ UNCHANGED rest
  \/ Sent /\ UNCHANGED rest

Spec == Init /\ [][Next]_vars

\* Requests of the other ledger routes: every body with a valid credential,
\* and one well-formed body under every header.
GateCreates ==
  { <<ValidHeader, CreateBody(n, AmtUndef, i, t)>> :
      n \in {"Arthur", Undef}, i \in {AmtUndef, AmtNum(1), AmtFrac, AmtNull},
      t \in {Undef, MalformedId} }
  \cup { <<h, CreateBody("Arthur", AmtUndef, AmtUndef, Undef)>> : h \in Headers }
GateAssociates ==
  { <<ValidHeader, [accountId |-> a, accountPrivateKey |-> k, tokenId |-> "0.0.100"]>> :
      a \in {"0.0.1", MalformedId}, k \in {GoodKey, MalformedKey, Undef} }
  \cup { <<h, [accountId |-> "0.0.1", accountPrivateKey |-> GoodKey, tokenId |-> "0.0.100"]>> :
           h \in Headers }
GateMints ==
  { <<ValidHeader, [tokenId |-> "0.0.100", amount |-> a]>> :
      a \in {AmtNum(1), AmtNull, AmtText, AmtEmpty, AmtLit(16)} }
  \cup { <<h, [tokenId |-> "0.0.100", amount |-> AmtNum(1)]>> : h \in Headers }


\* The user whose credential the requests carry.
GateUser == [username |-> "alice", password |-> "pw123", passphrase |-> "passphraseA"]

\* Every protected route under every header, and the transfer route under
\* every body, before and after the user of the credential has registered;
\* one request at a time, and no request that may build a transaction
\* document once MaxSingleTxs are built.
GateNext ==
  \/ \E r \in GateTransfers :
       created < MaxSingleTxs /\ TransferBegin(1, r[1], r[2]) /\ UNCHANGED rest
  \/ \E signed \in BOOLEAN : TransferSign(1, signed) /\ UNCHANGED rest
  \/ \E o \in ExecuteOutcomes : TransferExecute(1, o) /\ UNCHANGED rest
  \/ \E o \in ReceiptStatuses \cup ReceiptThrows : TransferReceipt(1, o) /\ UNCHANGED rest
  \/ TransferInsert(1) /\ UNCHANGED rest
  \/ \E stored \in BOOLEAN : TransferStored(1, stored) /\ UNCHANGED rest
  \/ \E r \in GateGets : GetTransactions(1, r[1], r[2], r[3]) /\ UNCHANGED rest
  \/ GetTransactionsRead(1) /\ UNCHANGED rest
  \/ \E found \in BOOLEAN : GetTransactionsFound(1, found) /\ UNCHANGED rest
  \/ \E r \in GatePosts :
       created < MaxSingleTxs /\ PostTransaction(1, r[1], r[2]) /\ UNCHANGED rest
  \/ PostTransactionInsert(1) /\ UNCHANGED rest
  \/ \E stored \in BOOLEAN : PostTransactionStored(1, stored) /\ UNCHANGED rest
  \/ \E r \in GateCreates : TokenCreate(1, r[1], r[2]) /\ UNCHANGED rest
  \/ \E ok \in BOOLEAN : TokenCreateExecute(1, ok) /\ UNCHANGED rest
  \/ \E ok \in BOOLEAN : TokenCreateReceipt(1, ok) /\ UNCHANGED rest
  \/ \E r \in GateAssociates : TokenAssociate(1, r[1], r[2]) /\ UNCHANGED rest
  \/ \E ok \in BOOLEAN : TokenAssociateSign(1, ok) /\ UNCHANGED rest
  \/ \E ok \in BOOLEAN : TokenAssociateExecute(1, ok) /\ UNCHANGED rest
  \/ \E ok \in BOOLEAN : TokenAssociateReceipt(1, ok) /\ UNCHANGED rest
  \/ \E r \in GateMints : TokenMint(1, r[1], r[2]) /\ UNCHANGED rest
  \/ \E ok \in BOOLEAN : TokenMintExecute(1, ok) /\ UNCHANGED rest
  \/ \E ok \in BOOLEAN : TokenMintReceipt(1, ok) /\ UNCHANGED rest
  \/ \E h \in Headers : TokenInfo(1, h, "0.0.100") /\ UNCHANGED rest
  \/ \E ok \in BOOLEAN : TokenInfoExecute(1, ok) /\ UNCHANGED rest
  \/ \E h \in Headers, a \in {"0.0.1", MalformedId} :
       AccountBalance(1, h, a) /\ UNCHANGED rest
  \/ \E ok \in BOOLEAN : AccountBalanceExecute(1, ok) /\ UNCHANGED rest
  \/ \E h \in Headers, p \in {"pw123", Undef} : VerifyPassword(1, h, p) /\ UNCHANGED rest
  \/ VerifyPasswordRead(1) /\ UNCHANGED rest
  \/ \E found \in BOOLEAN : VerifyPasswordFound(1, found) /\ UNCHANGED rest
  \/ VerifyPasswordCompared(1) /\ UNCHANGED rest
  \/ RegisterBegin(1, GateUser) /\ UNCHANGED rest
  \/ RegisterRead(1) /\ UNCHANGED rest
  \/ \E found \in BOOLEAN : RegisterFound(1, found) /\ UNCHANGED rest
  \/ RegisterHashed(1) /\ UNCHANGED rest
  \/ RegisterInsert(1) /\ UNCHANGED rest
  \/ \E saved \in BOOLEAN : RegisterSaved(1, saved) /\ UNCHANGED rest
  \/ Sent /\ UNCHANGED rest

SpecGate == Init /\ [][GateNext]_vars

\* The user routes.
AuthNext ==
  \/ \E s \in Slots, b \in RegisterBodies : RegisterBegin(s, b) /\ UNCHANGED rest
  \/ \E s \in Slots : RegisterRead(s) /\ UNCHANGED rest
  \/ \E s \in Slots, found \in BOOLEAN : RegisterFound(s, found) /\ UNCHANGED rest
  \/ \E s \in Slots : RegisterHashed(s) /\ UNCHANGED rest
  \/ \E s \in Slots : RegisterInsert(s) /\ UNCHANGED rest
  \/ \E s \in Slots, saved \in BOOLEAN : RegisterSaved(s, saved) /\ UNCHANGED rest
  \/ \E s \in Slots, b \in LoginBodies : Login(s, b) /\ UNCHANGED rest
  \/ \E s \in Slots : LoginRead(s) /\ UNCHANGED rest
  \/ \E s \in Slots, found \in BOOLEAN : LoginFound(s, found) /\ UNCHANGED rest
  \/ \E s \in Slots : LoginCompared(s) /\ UNCHANGED rest
  \/ \E s \in Slots, f \in Passphrases \cup {Undef} : Recover(s, f) /\ UNCHANGED rest
  \/ \E s \in Slots : RecoverRead(s) /\ UNCHANGED rest
  \/ \E s \in Slots, found \in BOOLEAN : RecoverFound(s, found) /\ UNCHANGED rest
  \/ \E s \in Slots, h \in Headers, p \in PasswordStrings \cup {Undef} :
       VerifyPassword(s, h, p) /\ UNCHANGED rest
  \/ \E s \in Slots : VerifyPasswordRead(s) /\ UNCHANGED rest
  \/ \E s \in Slots, found \in BOOLEAN : VerifyPasswordFound(s, found) /\ UNCHANGED rest
  \/ \E s \in Slots : VerifyPasswordCompared(s) /\ UNCHANGED rest
  \/ Health /\ UNCHANGED rest
  \/ Sent /\ UNCHANGED rest

SpecAuth == Init /\ [][AuthNext]_vars

\* The transfer route alone, with the kind of every answer recorded when it
\* is sent.
Observation(l) ==
  IF l.route = "transfer"
    THEN {[outcome |-> l.outcome, ledger |-> l.ledger, code |-> l.resp.code,
           error |-> l.resp.error]}
    ELSE {}

ObsNext ==
  \/ \E r \in MainTransfers : TransferBegin(1, r[1], r[2]) /\ UNCHANGED rest
  \/ \E signed \in BOOLEAN : TransferSign(1, signed) /\ UNCHANGED rest
  \/ \E o \in ExecuteOutcomes : TransferExecute(1, o) /\ UNCHANGED rest
  \/ \E o \in ReceiptStatuses \cup ReceiptThrows : TransferReceipt(1, o) /\ UNCHANGED rest
  \/ TransferInsert(1) /\ UNCHANGED rest
  \/ \E stored \in BOOLEAN : TransferStored(1, stored) /\ UNCHANGED rest
  \/ Sent /\ seen' = seen \cup Observation(last) /\ UNCHANGED <<priceVars, executes>>

SpecObs == Init /\ [][ObsNext]_vars

\* Startup, the refresher and the price route.
PriceNext ==
  \/ \E connected \in BOOLEAN : MongoConnect(connected)
  \/ \E s \in RunSlots : TimerFires(s)
  \/ \E s \in RunSlots, o \in FetchOutcomes : OracleAnswers(s, o)
  \/ \E s \in RunSlots, read \in BOOLEAN : OracleBody(s, read)
  \/ \E s \in RunSlots, answered \in BOOLEAN : UpsertFind(s, answered)
  \/ \E s \in RunSlots : UpsertWrite(s)
  \/ \E s \in RunSlots : UpsertDone(s)
  \/ PricesGet(1) /\ Handled
  \/ PricesRead(1) /\ UNCHANGED alive
  \/ \E found \in BOOLEAN : PricesFound(1, found) /\ Handled
  \/ \E o \in FetchOutcomes : PricesFetched(1, o) /\ Handled
  \/ \E read \in BOOLEAN : PricesBody(1, read) /\ Handled
  \/ Sent /\ UNCHANGED rest

SpecPrice == InitBoot /\ [][PriceNext]_vars

\* Requests of every route that uses a store, well-formed and malformed,
\* one at a time, and the refresher.
StoreUser == [username |-> "alice", password |-> "pw123", passphrase |-> "passphraseA"]
StoreTransfer == TransferBody("0.0.100", "0.0.1", GoodKey, "0.0.2", AmtNum(1))

\* A registration without passphrase; logins with the password and with a
\* number as password; transfers from a malformed account id, of an amount
\* that is no number, and without a key.
StoreRegisters == {StoreUser, [StoreUser EXCEPT !.passphrase = Undef]}
StoreLogins == { [username |-> "alice", password |-> p] : p \in {"pw123", NumberPassword} }
StoreTransfers ==
  { StoreTransfer,
    TransferBody("0.0.100", MalformedId, GoodKey, "0.0.2", AmtNum(1)),
    TransferBody("0.0.100", "0.0.1", GoodKey, "0.0.2", AmtText),
    TransferBody("0.0.100", "0.0.1", Undef, "0.0.2", AmtNum(1)) }

StoreNext ==
  \/ \E b \in StoreRegisters : RegisterBegin(1, b) /\ Handled /\ UNCHANGED served
  \/ RegisterRead(1) /\ UNCHANGED rest
  \/ \E found \in BOOLEAN : RegisterFound(1, found) /\ Handled /\ UNCHANGED served
  \/ RegisterHashed(1) /\ Handled /\ UNCHANGED served
  \/ RegisterInsert(1) /\ UNCHANGED rest
  \/ \E saved \in BOOLEAN : RegisterSaved(1, saved) /\ Handled /\ UNCHANGED served
  \/ \E b \in StoreLogins : Login(1, b) /\ Handled /\ UNCHANGED served
  \/ LoginRead(1) /\ UNCHANGED rest
  \/ \E found \in BOOLEAN : LoginFound(1, found) /\ Handled /\ UNCHANGED served
  \/ LoginCompared(1) /\ Handled /\ UNCHANGED served
  \/ Recover(1, "passphraseA") /\ Handled /\ UNCHANGED served
  \/ RecoverRead(1) /\ UNCHANGED rest
  \/ \E found \in BOOLEAN : RecoverFound(1, found) /\ Handled /\ UNCHANGED served
  \/ VerifyPassword(1, ValidHeader, "pw123") /\ Handled /\ UNCHANGED served
  \/ VerifyPasswordRead(1) /\ UNCHANGED rest
  \/ \E found \in BOOLEAN : VerifyPasswordFound(1, found) /\ Handled /\ UNCHANGED served
  \/ VerifyPasswordCompared(1) /\ Handled /\ UNCHANGED served
  \/ \E b \in StoreTransfers :
       created < MaxSingleTxs /\ TransferBegin(1, ValidHeader, b)
         /\ Handled /\ UNCHANGED served
  \/ \E signed \in BOOLEAN : TransferSign(1, signed) /\ Handled /\ UNCHANGED served
  \/ \E o \in ExecuteOutcomes : TransferExecute(1, o) /\ Handled /\ UNCHANGED served
  \/ \E o \in ReceiptStatuses \cup ReceiptThrows :
       TransferReceipt(1, o) /\ Handled /\ UNCHANGED served
  \/ TransferInsert(1) /\ UNCHANGED rest
  \/ \E stored \in BOOLEAN : TransferStored(1, stored) /\ Handled /\ UNCHANGED served
  \/ created < MaxSingleTxs /\ PostTransaction(1, ValidHeader, PostBody("0.0.1", Undef))
       /\ Handled /\ UNCHANGED served
  \/ PostTransactionInsert(1) /\ UNCHANGED rest
  \/ \E stored \in BOOLEAN : PostTransactionStored(1, stored) /\ Handled /\ UNCHANGED served
  \/ GetTransactions(1, ValidHeader, "0.0.1", <<>>) /\ Handled /\ UNCHANGED served
  \/ GetTransactionsRead(1) /\ UNCHANGED rest
  \/ \E found \in BOOLEAN : GetTransactionsFound(1, found) /\ Handled /\ UNCHANGED served
  \/ TimerFires(1)
  \/ \E o \in FetchOutcomes : OracleAnswers(1, o)
  \/ \E read \in BOOLEAN : OracleBody(1, read)
  \/ \E answered \in BOOLEAN : UpsertFind(1, answered)
  \/ UpsertWrite(1)
  \/ UpsertDone(1)
  \/ PricesGet(1) /\ Handled
  \/ PricesRead(1) /\ UNCHANGED alive
  \/ \E found \in BOOLEAN : PricesFound(1, found) /\ Handled
  \/ \E o \in FetchOutcomes : PricesFetched(1, o) /\ Handled
  \/ \E read \in BOOLEAN : PricesBody(1, read) /\ Handled
  \/ Sent /\ UNCHANGED rest

SpecStore == Init /\ [][StoreNext]_vars

\* One transfer request at a time, with the calls of signed.execute made for
\* it counted from the moment the handler takes the request.
SubmitNext ==
  \/ \E r \in MainTransfers :
       TransferBegin(1, r[1], r[2]) /\ executes' = 0 /\ UNCHANGED <<seen, priceVars>>
  \/ \E signed \in BOOLEAN : TransferSign(1, signed) /\ UNCHANGED rest
  \/ \E o \in ExecuteOutcomes :
       TransferExecute(1, o) /\ executes' = executes + 1 /\ UNCHANGED <<seen, priceVars>>
  \/ \E o \in ReceiptStatuses \cup ReceiptThrows : TransferReceipt(1, o) /\ UNCHANGED rest
  \/ TransferInsert(1) /\ UNCHANGED rest
  \/ \E stored \in BOOLEAN : TransferStored(1, stored) /\ UNCHANGED rest
  \/ Tick /\ UNCHANGED rest
  \/ Sent /\ UNCHANGED rest

SpecSubmit == Init /\ [][SubmitNext]_vars

\* The same with the scheduling the process can count on: the event loop
\* runs due timers and sends responses, and the store driver answers or
\* fails every operation within its own deadlines.  Nothing bounds a wait
\* for the oracle: fetch, r.json() and r.text() are called without timeout
\* or abort signal.
SpecPriceFair ==
  /\ SpecPrice
  /\ WF_vars(\E connected \in BOOLEAN : MongoConnect(connected))
  /\ WF_vars(\E s \in RunSlots : TimerFires(s))
  /\ WF_vars(\E s \in RunSlots, answered \in BOOLEAN : UpsertFind(s, answered))
  /\ WF_vars(\E s \in RunSlots : UpsertWrite(s))
  /\ WF_vars(\E s \in RunSlots : UpsertDone(s))
  /\ WF_vars(PricesRead(1) /\ UNCHANGED alive)
  /\ WF_vars(\E found \in BOOLEAN : PricesFound(1, found) /\ Handled)
  /\ WF_vars(Sent /\ UNCHANGED rest)

(***************************************************************************)
(* The error taxonomy of the specification, read off a response.           *)
(***************************************************************************)
KindOf(resp) ==
  IF resp.code = 200 THEN "Success"
  ELSE IF resp.code = 401 THEN "Unauthorized"
  ELSE IF resp.code = 400 /\ resp.error = "User exists" THEN "Conflict"
  ELSE IF resp.code = 400 /\ resp.error \in {"Invalid credentials", "Invalid passphrase"}
    THEN "InvalidCredentials"
  ELSE IF resp.code = 400 THEN "InvalidRequest"
  ELSE IF resp.code = 500 /\ resp.error \in {"Hedera client not configured",
                                              "Hedera client not configured on server"}
    THEN "LedgerUnavailable"
  ELSE resp.error

\* A header that carries a valid bearer credential.
ValidCredential(h) == Len(h) >= 2 /\ h[2].sig = "JWT_SECRET" /\ ~h[2].expired

\* The transaction documents of the store in use.
Stored == IF mongo THEN dbTxs ELSE {memTxs[i] : i \in 1..Len(memTxs)}
\* The answers listTransactions(accountId, limit) can give.
Lists(accountId, limit) ==
  IF mongo THEN DbList(accountId, limit) ELSE {MemList(accountId, limit)}

(***************************************************************************)
(* C1                                                                      *)
(***************************************************************************)
\* C1: when the handler of a transfer that called execute answers, the
\* store holds a Transaction record of that transfer, whatever the outcome.
C1_RecordForEverySubmission ==
  (last.route = "transfer" /\ last.ledger >= 1) =>
    \E d \in Stored :
      /\ d.seq = last.seq
      /\ d.type = "TRANSFER"
      /\ d.accountId = last.req.body.fromAccountId

(***************************************************************************)
(* C2                                                                      *)
(***************************************************************************)
\* A transfer body without signing material.
Keyless(b) == b.fromPrivateKey \in {Undef, ""}
\* A body field the handler requires is absent.
LacksField(b) ==
  \/ b.tokenId \in {Undef, ""}
  \/ b.fromAccountId \in {Undef, ""}
  \/ b.toAccountId \in {Undef, ""}
  \/ b.amount \in {AmtNull, AmtUndef}
\* Both account ids and the amount are of the form the ledger SDK converts.
Converts(b) ==
  /\ b.fromAccountId \in {"0.0.1", "0.0.2"}
  /\ b.toAccountId \in {"0.0.1", "0.0.2"}
  /\ b.amount.t \in {"num", "str", "empty", "lit"}

\* C2: on a server with an operator, an authenticated transfer request
\* without fromPrivateKey is answered InvalidRequest (a 4xx error), with no
\* ledger call, nothing frozen or left in flight and the stored Transaction
\* records unchanged.
C2_KeylessIsInvalidRequest ==
  [][ (last'.route = "transfer" /\ hedera /\ ValidCredential(last'.req.h)
        /\ Keyless(last'.req.body))
      => /\ KindOf(last'.resp) = "InvalidRequest"
         /\ last'.resp.code \in 400..499
         /\ last'.ledger = 0
         /\ UNCHANGED <<memTxs, dbTxs, pc>> ]_vars

(***************************************************************************)
(* C3                                                                      *)
(***************************************************************************)
\* C3: every transfer handed to execute has exactly two legs on the
\* request's token, fromAccountId by -amount and toAccountId by +amount,
\* which sum to zero.
C3_BalancedLegs ==
  \A s \in Slots :
    (pc[s] \in {"sign", "execute", "receipt", "store", "stored"}
       /\ job[s].route = "transfer") =>
      LET b == job[s].body
          legs == job[s].legs
      IN
      /\ Len(legs) = 2
      /\ legs[1].tokenId = b.tokenId /\ legs[2].tokenId = b.tokenId
      /\ legs[1].accountId = b.fromAccountId /\ legs[1].amount = 0 - b.amount.v
      /\ legs[2].accountId = b.toAccountId /\ legs[2].amount = b.amount.v
      /\ legs[1].amount + legs[2].amount = 0

\* C3's case: a transfer of a non-zero amount given as a string is waiting
\* for its receipt.
C3_Witness ==
  \E s \in Slots :
    /\ pc[s] = "receipt"
    /\ job[s].route = "transfer"
    /\ job[s].body.amount = AmtStr(2)
    /\ job[s].legs[1].amount = 0 - 2

(***************************************************************************)
(* C4                                                                      *)
(***************************************************************************)
\* What happened to an answered transfer.
Ambiguous(o) == o.outcome = "timeout"
Succeeded(o) == o.code = 200
LedgerRefused(o) == o.outcome \in {"ReceiptStatusError", "PrecheckStatusError"}
NeverSubmitted(o) == o.ledger = 0

\* C4: the answer to a transfer whose receipt wait failed is of a kind
\* (status code and error) that no successful, ledger-refused or
\* never-submitted transfer is answered with.
C4_AmbiguousIsDistinct ==
  \A p, q \in seen :
    (Ambiguous(p) /\ (Succeeded(q) \/ LedgerRefused(q) \/ NeverSubmitted(q)))
      => <<p.code, p.error>> # <<q.code, q.error>>

(***************************************************************************)
(* C5                                                                      *)
(***************************************************************************)
\* d is the record of the transfer answered by l, as the claim describes it.
RecordOf(d, l) ==
  /\ d.seq = l.seq
  /\ d.accountId = l.req.body.fromAccountId
  /\ d.type = "TRANSFER"
  /\ d.tokenId = l.req.body.tokenId
  /\ d.amount.v = l.req.body.amount.v
  /\ d.status = l.outcome
  /\ l.resp.code = 200
  /\ l.resp.body.transactionId = d.transactionId
  /\ l.resp.body.status = d.status

\* The positions of the record numbered n in a listing.
Places(q, n) == {i \in 1..Len(q) : q[i].seq = n}

\* The step answers a transfer that has added exactly one record, the
\* record of that transfer under the id the ledger gave: the step itself
\* adds it to the memory store, the insert the handler waited for has added
\* it to the durable store; and a listing of the sender's records under the
\* default limit has the record exactly once.
AddsItsRecord ==
  \E d \in Stored' :
    /\ RecordOf(d, last')
    /\ \E s \in Slots :
         /\ pc[s] \in {"receipt", "stored"} /\ pc'[s] = "idle"
         /\ job[s].transactionId = d.transactionId
         /\ IF mongo
              THEN /\ pc[s] = "stored" /\ job[s].doc = d
                   /\ UNCHANGED <<memTxs, dbTxs>>
              ELSE /\ pc[s] = "receipt" /\ d \notin Stored
                   /\ memTxs' = <<d>> \o memTxs
                   /\ UNCHANGED dbTxs
    /\ \A q \in Lists(d.accountId, DefaultLimit)' : Cardinality(Places(q, d.seq)) = 1

\* C5: a transfer whose receipt was obtained adds exactly one
\* record (accountId = fromAccountId, type TRANSFER, the request's tokenId
\* and amount, the receipt's status, the ledger's transactionId), answers
\* with the same transactionId and status, and a listing of fromAccountId
\* has the record exactly once.
C5_ReceiptIsRecorded ==
  [][ (last'.route = "transfer" /\ last'.ledger = 2
        /\ last'.outcome \notin ReceiptThrows) => AddsItsRecord ]_vars

(***************************************************************************)
(* C6                                                                      *)
(***************************************************************************)
\* C6 as claimed: a registration that arrives after a registration of the
\* same username has succeeded is answered Conflict, issues no credential
\* and leaves the stored users unchanged, in both backends.
C6_LateRegistrationConflicts ==
  [][ (last'.route = "register" /\ last'.req.late)
      => /\ KindOf(last'.resp) = "Conflict"
         /\ last'.resp.code # 200
         /\ UNCHANGED <<memUsers, dbUsers>> ]_vars

\* C6 as amended: such a registration is always refused, issues no
\* credential and leaves the stored users unchanged; the refusal is
\* InvalidRequest when password or passphrase is absent, 500 when the
\* durable lookup fails, and Conflict otherwise.  While it is in flight it
\* waits for the durable lookup or its answer and never gets to hash or
\* save.
C6_LateRegistrationRefused ==
  [][ /\ (last'.route = "register" /\ last'.req.late)
        => LET b == last'.req.body IN
           /\ last'.resp.code \in {400, 500}
           /\ last'.resp.body = <<>>
           /\ UNCHANGED <<memUsers, dbUsers>>
           /\ KindOf(last'.resp) =
                IF Falsy(b.password) \/ Falsy(b.passphrase) THEN "InvalidRequest"
                ELSE IF last'.outcome = "store error" THEN "Server error"
                ELSE "Conflict"
           /\ last'.outcome = "store error" => mongo
      /\ \A s \in Slots :
           (pc'[s] # "idle" /\ job'[s].route = "register" /\ job'[s].req.late)
             => mongo /\ pc'[s] \in {"findOne", "found"} ]_vars

\* C6's case: with a user registered in memory, a complete registration of
\* the same username under another password was answered "User exists".
C6_Witness ==
  /\ last.route = "register"
  /\ ~mongo
  /\ last.req.late
  /\ last.resp.error = "User exists"
  /\ \E i \in 1..Len(memUsers) :
       /\ memUsers[i].username = last.req.body.username
       /\ IsString(last.req.body.password)
       /\ memUsers[i].passwordHash # hashPassword(last.req.body.password)

(***************************************************************************)
(* C7                                                                      *)
(***************************************************************************)
\* The users of the store in use.
Users == IF mongo THEN dbUsers ELSE {memUsers[i] : i \in 1..Len(memUsers)}

\* The username is known and the password is the one it registered with.
Matches(b) ==
  \E u \in Users : u.username = b.username /\ u.passwordHash = [bcrypt |-> b.password]

\* C7: a login (that the store answered) with an unknown username or with a
\* password that is not the stored one is answered InvalidCredentials and
\* issues no credential.
C7_BadLoginIsInvalidCredentials ==
  (last.route = "login" /\ last.outcome # "store error" /\ ~Matches(last.req))
    => /\ KindOf(last.resp) = "InvalidCredentials"
       /\ last.resp.body = <<>>

(***************************************************************************)
(* C8                                                                      *)
(***************************************************************************)
ProtectedRoutes ==
  {"transfer", "transactions", "postTransaction", "tokenCreate", "tokenAssociate",
   "tokenMint", "tokenInfo", "accountBalance", "verifyPassword"}

\* C8: a request to a protected route without a valid bearer credential is
\* answered Unauthorized by the step that receives it, with no ledger call,
\* no store operation, nothing in flight and every store unchanged.
C8_GateBeforeHandler ==
  [][ (last'.route \in ProtectedRoutes /\ ~ValidCredential(last'.req.h))
      => /\ last = NoLast
         /\ last'.resp.code = 401
         /\ last'.resp.error \in {"Missing Authorization header",
                                    "Malformed Authorization header", "Invalid token"}
         /\ last'.resp.body = <<>>
         /\ last'.ledger = 0
         /\ last'.store = 0
         /\ UNCHANGED <<memUsers, dbUsers, memTxs, dbTxs, created, pc, job>> ]_vars

\* C8's case: a well-formed transfer with a key, sent with a token of a
\* forged signature to a server with an operator, was answered 401.
C8_Witness ==
  /\ last.route = "transfer"
  /\ hedera
  /\ Len(last.req.h) = 2 /\ last.req.h[2].sig = "forged"
  /\ last.req.body.fromPrivateKey = GoodKey
  /\ last.resp.code = 401

(***************************************************************************)
(* C9 and C10                                                              *)
(***************************************************************************)
\* A listing was answered.
Listed == last.route = "transactions" /\ last.resp.code = 200

\* C9: a listing has at most limit records (none for a limit below 1), all
\* of the account asked for.
C9_AtMostLimitOfAccount ==
  Listed =>
    LET q == last.resp.body.transactions IN
    /\ Len(q) <= Max(LimitOf(last.req.limit), 0)
    /\ \A i \in 1..Len(q) : q[i].accountId = last.req.accountId

\* C10: in a listing, a record created later stands before every record
\* created earlier.
C10_NewestFirst ==
  Listed =>
    LET q == last.resp.body.transactions IN
    \A i, k \in 1..Len(q) : i < k => q[i].seq > q[k].seq

(***************************************************************************)
(* C11                                                                     *)
(***************************************************************************)
\* The step is a refresh run ending because its oracle fetch failed.
RefreshFailsAtOracle ==
  \E s \in RunSlots :
    /\ rpc[s] \in {"fetch", "json", "text"} /\ rpc'[s] = "idle"
    /\ rjob'[s].result \in FetchOutcomes \ {"ok"}

\* Since the price read before, a refresh has failed at the oracle and no
\* snapshot has been written.
AfterFailedRefresh == watch.read # <<>> /\ watch.failed /\ ~watch.wrote

\* C11: a refresh that fails at the oracle leaves the stored snapshots as
\* they were, and a price read that follows it returns the snapshot set the
\* read before it returned, in durable mode (where the set returned is the
\* one the store's query gave) and in memory mode.
C11_FailedRefreshKeepsReadAll ==
  [][ /\ RefreshFailsAtOracle => UNCHANGED <<memPrices, dbPrices>>
      /\ (~mongo /\ last'.route = "prices" /\ AfterFailedRefresh)
           => last'.resp = Ok(watch.read[1])
      /\ \A s \in Slots :
           (pc[s] = "find" /\ pc'[s] = "found" /\ job[s].route = "prices"
              /\ AfterFailedRefresh) => job'[s].docs = watch.read[1]
      /\ (mongo /\ last'.route = "prices" /\ last'.resp.code = 200)
           => \E s \in Slots : pc[s] = "found" /\ last'.resp = Ok(job[s].docs) ]_vars

(***************************************************************************)
(* C12                                                                     *)
(***************************************************************************)
\* C12: the price store in use never holds two snapshots of one asset id.
C12_OneSnapshotPerAsset ==
  /\ \A d, e \in dbPrices : d.coinId = e.coinId => d = e
  /\ memPrices # <<>> =>
       \A i, k \in 1..Len(memPrices[1]) :
         memPrices[1][i].coinId = memPrices[1][k].coinId => i = k

(***************************************************************************)
(* C13                                                                     *)
(***************************************************************************)
\* The snapshots of a price response, as a set.
Snapshots(body) ==
  IF mongo THEN body ELSE {body[i] : i \in 1..Len(body)}

\* C13: a price read answered while a refresh run is under way (no run
\* having been cut short by the store) returns the snapshot set of before
\* or of after a refresh: the empty set, or a snapshot of every tracked
\* asset id, all of one fetch.
C13_NoTornRead ==
  (/\ last.route = "prices" /\ last.resp.code = 200
   /\ \E s \in RunSlots : rpc[s] # "idle"
   /\ ~watch.cut) =>
    LET S == Snapshots(last.resp.body) IN
    \/ S = {}
    \/ /\ \A i \in 1..Len(CoinIds) : \E d \in S : d.coinId = CoinIds[i]
       /\ \A d, e \in S : d.usd = e.usd

(***************************************************************************)
(* C14                                                                     *)
(***************************************************************************)
\* C14: the backend chosen at startup stays: the configuration never
\* changes; with the durable store configured no step reads or writes the
\* memory store, every store operation goes to the durable store, and a
\* request on which the durable store failed is answered with an error;
\* without it no step reads or writes the durable store.
C14_BackendFixed ==
  [][ /\ mongo' = mongo
      /\ mongo => /\ UNCHANGED <<memUsers, memTxs, memPrices>>
                  /\ "memory" \notin accessed'
                  /\ (last' # NoLast /\ last'.store >= 1) => "durable" \in accessed'
                       \/ last'.outcome = "store error"
      /\ ~mongo => /\ UNCHANGED <<dbUsers, dbTxs, dbPrices>>
                   /\ "durable" \notin accessed'
      /\ (mongo /\ last'.outcome = "store error")
           => last'.resp.code = 500 /\ last'.resp.body = <<>> ]_vars

\* C14's case: with users and prices in the durable store and the memory
\* store empty, a transfer whose record the durable store refused was
\* answered 500.
C14_Witness ==
  /\ mongo
  /\ accessed = {"durable"}
  /\ dbUsers # {} /\ dbPrices # {}
  /\ memUsers = <<>> /\ memTxs = <<>> /\ memPrices = <<>>
  /\ last.route = "transfer"
  /\ last.outcome = "store error"
  /\ last.resp.code = 500

(***************************************************************************)
(* C15                                                                     *)
(***************************************************************************)
\* C15: no wait for the oracle lasts forever: the refresh run awaited by
\* startServer ends and the server starts listening, and every refresh run
\* that has called the oracle gets past that call.
C15_NoIndefiniteWait ==
  /\ (phase = "refresh") ~> (phase = "listening")
  /\ \A s \in RunSlots : (rpc[s] = "fetch" /\ fetches < MaxFetches) ~> (rpc[s] # "fetch")

(***************************************************************************)
(* C16                                                                     *)
(***************************************************************************)
\* The ways an operation fails: the store, the oracle, the ledger.
Failures == {"store error", "http error", "network error", "PrecheckStatusError",
             "ReceiptStatusError", "timeout", "sign throws", "execute throws",
             "receipt throws"}

\* The request answered was malformed: a transfer with a field absent, an
\* id or amount that does not convert, or no usable key; a registration
\* with a field absent; a login whose password is not a string.
Malformed(l) ==
  \/ /\ l.route = "transfer"
     /\ LacksField(l.req.body) \/ ~Converts(l.req.body)
          \/ l.req.body.fromPrivateKey # GoodKey
  \/ /\ l.route = "register"
     /\ \E f \in {"username", "password", "passphrase"} : Falsy(l.req.body[f])
  \/ /\ l.route = "login"
     /\ ~IsString(l.req.password)

\* C16: once the server is serving, no step ends the process or disarms the
\* refresh timer, whatever fails in it (the ledger, the oracle, the store,
\* a malformed request, a refresh run), and a request that was malformed or
\* in which an operation failed is answered with an error response.
C16_FailureIsSurvived ==
  [][ Serving =>
        /\ Serving' /\ timer'
        /\ (last' # NoLast /\ last'.outcome \in Failures) => last'.resp.code \in {500, 502}
        /\ (last' # NoLast /\ Malformed(last')) => last'.resp.code \in {400, 500}
    ]_vars

\* A refresh run died on a store failure, a later run completed, and after
\* both a transfer from a malformed account id is answered 500 from the
\* catch block of its handler by a server that is still serving.
C16_Witness ==
  /\ Serving /\ timer
  /\ watch.cut /\ rjob[1].result = "done"
  /\ last.route = "transfer" /\ Malformed(last) /\ Caught(last)
  /\ last.resp.details = "AccountId.fromString"

(***************************************************************************)
(* C17                                                                     *)
(***************************************************************************)
\* Runs of the refresher under way.
Running == {s \in RunSlots : rpc[s] # "idle"}

\* C17: the server starts listening in the step that ends the first run of
\* the refresher (the run resumes and returns; a write by the durable store
\* is not that step), the only run so far, and answers no request before; the
\* timer is armed from then on while the process lives; every tick starts a
\* run, whether or not other runs are under way or have failed, and no run
\* starts but at startup and at a tick.
C17_RefreshSchedule ==
  [][ /\ (phase # "listening" /\ phase' = "listening") =>
            /\ phase = "refresh" /\ started = 1 /\ started' = 1 /\ ticks' = 0
            /\ rpc[1] \notin {"idle", "write"} /\ rpc'[1] = "idle"
            /\ timer'
      /\ (last = NoLast /\ last' # NoLast) => phase = "listening"
      /\ ~timer => ticks' = ticks
      /\ (timer /\ alive') => timer'
      /\ ticks' # ticks =>
            /\ ticks' = ticks + 1
            /\ started' = started + 1
            /\ \E s \in RunSlots : s \notin Running /\ rpc'[s] = "fetch"
      /\ started' # started => (phase = "connect" \/ ticks' = ticks + 1)
    ]_vars

\* The first run failed at the oracle, and two ticks have each started a run
\* while the run before was still under way.
C17_Witness ==
  /\ Serving /\ watch.failed
  /\ ticks = 2 /\ started = 3
  /\ Running = RunSlots

(***************************************************************************)
(* C18                                                                     *)
(***************************************************************************)
\* C18: the handler of one transfer request calls signed.execute at most
\* once, and when the submission, the ledger or the wait for the receipt
\* failed the request is answered with nothing of it left to run.
C18_AtMostOneSubmission ==
  /\ executes <= 1
  /\ (last.route = "transfer" /\ last.outcome \in Failures) => pc[1] = "idle"

\* A transfer submitted once is answered after the wait for its receipt
\* failed.
C18_Witness ==
  /\ last.route = "transfer" /\ last.outcome = "timeout"
  /\ executes = 1 /\ pc[1] = "idle"

(***************************************************************************)
(* C19                                                                     *)
(***************************************************************************)
\* C19: in memory mode every user record stored by a registration answered
\* with success stays as that registration stored it, no registration of a
\* username succeeds after another of that username did, and every record
\* of the transaction log stays in the log.
C19_AcknowledgedWritesKept ==
  [][ ~mongo =>
        /\ \A i \in 1..Len(memUsers) : i <= Len(memUsers') /\ memUsers'[i] = memUsers[i]
        /\ (last'.route = "register" /\ last'.resp.code = 200) =>
              last'.req.body.username \notin registered
        /\ \E k \in 0..Len(memTxs') : SubSeq(memTxs', k + 1, Len(memTxs')) = memTxs
    ]_vars

(***************************************************************************)
(* C20                                                                     *)
(***************************************************************************)
\* C20: in memory mode, once a refresh run has assigned memoryStore.prices,
\* GET /api/prices answers with that set and calls the oracle no more.
C20_ReadAllServesLastRefresh ==
  (last.route = "prices" /\ ~mongo /\ memPrices # <<>>) =>
     /\ last.resp = Ok(memPrices[1])
     /\ last.outcome \notin FetchOutcomes

(***************************************************************************)
(* C21                                                                     *)
(***************************************************************************)
\* The routes of the ledger operations.
LedgerRoutes == {"tokenCreate", "tokenAssociate", "tokenMint", "transfer", "tokenInfo",
                 "accountBalance"}

\* C21: whether an operator is configured never changes; without one, every
\* request of a ledger route that passed the authentication gate is
\* answered LedgerUnavailable in the step that takes it, having made no
\* ledger call and no store operation, with the transaction log as it was
\* and no handler of a ledger route left waiting (to sign, for the ledger
\* or for the store).
C21_NoOperatorNoLedger ==
  [][ /\ hedera' = hedera
      /\ (~hedera /\ last' # NoLast /\ last'.route \in LedgerRoutes
            /\ ValidCredential(last'.req.h)) =>
            /\ KindOf(last'.resp) = "LedgerUnavailable"
            /\ last'.ledger = 0 /\ last'.store = 0 /\ last'.seq = 0
            /\ UNCHANGED txVars
      /\ ~hedera => \A s \in Slots : pc'[s] # "idle" => job'[s].route \notin LedgerRoutes
    ]_vars

\* Without an operator, a transfer request with a valid credential and a
\* complete body, signing key included, is answered LedgerUnavailable.
C21_Witness ==
  /\ ~hedera
  /\ last.route = "transfer" /\ ValidCredential(last.req.h)
  /\ last.req.body.fromPrivateKey = GoodKey /\ last.req.body.amount = AmtNum(1)
  /\ KindOf(last.resp) = "LedgerUnavailable"
  /\ last.ledger = 0 /\ Stored = {}

(***************************************************************************)
(* C22                                                                     *)
(***************************************************************************)
\* C22: no step replaces a cached snapshot by one the oracle gave earlier
\* (the oracle's answers are numbered in the order it gives them, and usd
\* carries that number), in the durable store and in memory.
C22_LatestSnapshotKept ==
  [][ /\ \A d \in dbPrices : \A e \in dbPrices' : e.id = d.id => e.usd >= d.usd
      /\ (memPrices # <<>> /\ memPrices' # <<>>) =>
            \A i \in 1..Len(memPrices[1]) : memPrices'[1][i].usd >= memPrices[1][i].usd
    ]_vars
====
